---- MODULE Spec2Model ----
(***************************************************************************)
(* Event-cycle and balance-accrual state machine of the ExtraShare BXC     *)
(* backend (src/unnamed/part_000, lines 1-1336: the globalState-driven     *)
(* version of backend/index.js).                                           *)
(*                                                                         *)
(* Units.  Time is counted in ticks of one second.  BXC amounts are        *)
(* counted in units of 1/2000 BXC, so the accrual rate of 0.001 BXC per    *)
(* second is 2 units per tick.  Reward USD amounts are counted in          *)
(* milli-USD and AIN amounts in units of 1/1370 AIN, so that the division  *)
(* by AIN_USD_PRICE = 0.137 is the exact multiplication by 10 and the      *)
(* multiplication by 0.137 the exact division by 10 (real arithmetic; the  *)
(* rounding of IEEE doubles is not modelled).  Stake amounts are whole     *)
(* USD.                                                                    *)
(***************************************************************************)
EXTENDS Integers, Sequences, FiniteSets, TLC

\* ---------------------------------------------------------------- bounds
\* the clock stops at MaxTime; the default duration of a cycle (95 hours in
\* the program) is DefaultDurationTicks; an address is funded at most
\* MaxFundings times and credited at most MaxReferrals referrals
MaxTime == 3
DefaultDurationTicks == 2
MaxFundings == 1
MaxReferrals == 1
\* a behaviour holds at most MaxRequests requests
MaxRequests == 4

\* ------------------------------------------------------- program constants
BXC_ACCRUAL_PER_SECOND == 2
BxcUnits(bxc) == bxc * 2000
INITIAL_BXC == BxcUnits(8000)
REFERRAL_BXC == BxcUnits(1050)
REFERRAL_COPY_BXC_BONUS == BxcUnits(50)
LUCKY_WINNER_SLOT_THRESHOLD == 9000
REWARD_USD_LARGE_MIN == 100
REWARD_USD_REGULAR_MIN == 10
DefaultMaxStakeSlots == 30000
DefaultInitialStakeAmountUSD == 8
DefaultMaxAinRewardPool == 100000

MilliUsd(usd) == usd * 1000
AinUnits(ain) == ain * 1370
\* AIN units per milli-USD unit: 1 / AIN_USD_PRICE in the model's units
AinPerUsdUnit == (1370 * 1000) \div (137 * 1000)
UsdToAin(usdAmount) == usdAmount * AinPerUsdUnit
AinToUsd(ainAmount) == ainAmount \div AinPerUsdUnit

\* --------------------------------------------------------------- inputs
Addresses == {"a1", "a2"}
Hashes == {"h1", "h2"}
NoRef == "none"
ReferralCodeOf(addr) == IF addr = "a1" THEN "c1" ELSE "c2"
ReferrerRefs == {NoRef} \cup {ReferralCodeOf(a) : a \in Addresses}
AdminWallet == "0xadmin"
Callers == {"0xADMIN", "0xother"}
\* the values of the environment variable ADMIN_WALLET_ADDRESS (unset: "")
\* and of the walletAddress of an admin request (missing: "")
AdminAddressSettings == {"", "0xADMIN"}
GateCallers == Callers \cup {"", "0xadmin"}
ToLowerCase(s) == IF s = "0xADMIN" THEN "0xadmin" ELSE s
RewardDraws == {0, MilliUsd(REWARD_USD_REGULAR_MIN), MilliUsd(REWARD_USD_LARGE_MIN)}
MaxSlotsInputs == {1, 2}
RewardPoolInputs == {0, AinUnits(100)}
DurationInputs == {1}
StakeAmountInputs == {10}
FundTokens == {"BXC", "AIN"}
FundAmount(token) == IF token = "BXC" THEN BxcUnits(100) ELSE AinUnits(1)

\* JavaScript null / undefined
Null == -1
Undef == -2
\* the number NaN (the negation of undefined)
NaN == -3

\* the amount of a withdrawal request: absent (Undef), or a number (a part of
\* the balance, zero, a negative number, more than any balance)
BxcAmounts == {Undef, BxcUnits(50), 0, 0 - BxcUnits(50), BxcUnits(1000000)}
AinAmounts == {Undef, AinUnits(1), 0, 0 - AinUnits(1), AinUnits(1000000)}

Max(a, b) == IF a >= b THEN a ELSE b
Min(a, b) == IF a <= b THEN a ELSE b
\* (x || 0)
IsNumber(x) == x # Undef /\ x # NaN
OrZero(x) == IF IsNumber(x) THEN x ELSE 0
\* x === 0, x > 0, x < y, x <= y on numbers that may be undefined or NaN
IsZero(x) == x = 0
IsPositive(x) == IsNumber(x) /\ x > 0
IsLess(x, y) == IsNumber(x) /\ IsNumber(y) /\ x < y
IsAtMost(x, y) == IsNumber(x) /\ IsNumber(y) /\ x <= y
\* the $inc update operator: a missing field counts as 0, NaN stays NaN
Inc(x, d) == IF x = NaN \/ d = NaN THEN NaN ELSE OrZero(x) + d

VARIABLES
  now,        \* the server clock (new Date())
  globalState,\* the singleton document of collection globalState
  users,      \* collection users: a function from the stored wallet addresses
  hist,       \* what has happened so far, for the history claims
  requests,   \* the number of requests served so far
  inflight,   \* the requests that are between two of their store operations
  env         \* process.env: the configuration the process was started with

vars == <<now, globalState, users, hist, requests, inflight, env>>

\* ------------------------------------------------------------ documents
\* the user document inserted by /api/status and /api/stake
NewUser(addr, t) ==
  [ slotsStaked |-> 0, stakedUSDValue |-> 0, BXC_Balance |-> 0, AIN_Balance |-> 0,
    claimedEventRewardTime |-> Null, collectedEventRewardTime |-> Null,
    lastRevealedUSDAmount |-> 0, lastReferralCopyBonusGiven |-> Null,
    referralCode |-> ReferralCodeOf(addr), referralCount |-> 0,
    stakeTransactions |-> <<>>, lastBXCAccrualTime |-> t ]

\* the user document an upsert of /api/admin/fund-user creates: only the
\* wallet address and the funded balance exist, every other field is undefined
\* (an undefined timestamp is falsy like null, an undefined array like [])
UpsertedUser(field, amount) ==
  [ slotsStaked |-> Undef, stakedUSDValue |-> Undef,
    BXC_Balance |-> IF field = "BXC_Balance" THEN amount ELSE Undef,
    AIN_Balance |-> IF field = "AIN_Balance" THEN amount ELSE Undef,
    claimedEventRewardTime |-> Null, collectedEventRewardTime |-> Null,
    lastRevealedUSDAmount |-> Undef, lastReferralCopyBonusGiven |-> Null,
    referralCode |-> NoRef, referralCount |-> Undef,
    stakeTransactions |-> <<>>, lastBXCAccrualTime |-> Null ]

\* the globalState document ensureGlobalStateInitialized inserts
DefaultGlobalState(t) ==
  [ totalSlotsUsed |-> 0, eventStartTime |-> t,
    eventEndTime |-> t + DefaultDurationTicks,
    isPaused |-> FALSE, pauseStartTime |-> Null, withdrawalsPaused |-> FALSE,
    lastResetTime |-> t, stakingRecipientAddress |-> "default",
    initialStakeAmountUSD |-> DefaultInitialStakeAmountUSD,
    maxStakeSlots |-> DefaultMaxStakeSlots,
    maxAinRewardPool |-> AinUnits(DefaultMaxAinRewardPool),
    totalAinRewarded |-> 0 ]

SweepAllFlags(us) ==
  [a \in DOMAIN us |-> [us[a] EXCEPT !.claimedEventRewardTime = Null,
                                     !.collectedEventRewardTime = Null,
                                     !.lastRevealedUSDAmount = 0,
                                     !.lastReferralCopyBonusGiven = Null]]

\* updateMany({}, {$set: {claimedEventRewardTime: null, ...}}): the sweep of
\* the reward flags of every user at a cycle reset
SweepRewardFlags(us) ==
  [a \in DOMAIN us |-> [us[a] EXCEPT !.claimedEventRewardTime = Null,
                                     !.collectedEventRewardTime = Null,
                                     !.lastRevealedUSDAmount = 0]]

\* ------------------------------------------------------ accrual engine
\* calculateAndSaveBXC: the accrual window of a user that is neither paused
\* nor unstaked
AccrualStartFromLastAccrual(user, gs) == user.lastBXCAccrualTime

AccrualStartIgnoringLastAccrual(user, gs) == gs.eventStartTime

\* effectiveAccrualStartTime
AccrualStart(user, gs) == Max(user.lastBXCAccrualTime, gs.eventStartTime)
AccrualUntil(gs, t) == IF t > gs.eventEndTime THEN gs.eventEndTime ELSE t
AccruedBXC(user, gs, t) ==
  Max(0, AccrualUntil(gs, t) - AccrualStart(user, gs)) * BXC_ACCRUAL_PER_SECOND

\* the accrual is skipped: only lastBXCAccrualTime advances
AccrualSkipped(user, gs) ==
  \/ gs.isPaused
  \/ user.lastBXCAccrualTime = Null
  \/ IsZero(user.slotsStaked)

\* the commit condition of line 206
AccrualCommitted(user, gs, t) ==
  /\ ~AccrualSkipped(user, gs)
  /\ AccruedBXC(user, gs, t) > 0
  /\ IsPositive(user.slotsStaked)
  /\ t >= gs.eventStartTime
  /\ t <= gs.eventEndTime

CalculateAndSaveBXCWithoutCarry(user, gs, t) ==
  IF AccrualCommitted(user, gs, t)
  THEN [user EXCEPT !.BXC_Balance = AccruedBXC(user, gs, t),
                    !.lastBXCAccrualTime = t]
  ELSE [user EXCEPT !.lastBXCAccrualTime = t]

CalculateAndSaveBXC(user, gs, t) ==
  IF AccrualCommitted(user, gs, t)
  THEN [user EXCEPT !.BXC_Balance = OrZero(@) + AccruedBXC(user, gs, t),
                    !.lastBXCAccrualTime = t]
  ELSE [user EXCEPT !.lastBXCAccrualTime = t]

\* the credit (if any) one accrual computation commits
CreditsOf(addr, user, gs, t) ==
  IF AccrualCommitted(user, gs, t)
  THEN {[addr |-> addr, from |-> AccrualStart(user, gs), to |-> AccrualUntil(gs, t),
         amount |-> AccruedBXC(user, gs, t)]}
  ELSE {}

\* ------------------------------------------------------------- history
\* What has happened to an address, kept beside the documents:
\*   hashes         the transaction hashes of its accepted stakes
\*   stakedInCycle  a stake of it was accepted since the last cycle reset
\*   drawn          the reward (milli-USD) drawn for it since the last cycle
\*                  reset, Null when RevealReward has not drawn for it
\*   shown          a RevealReward answered with the stored reward since
\*                  the draw
\*   collected      a CollectReward of it was accepted since the last reset
\*   snapT, snapBal time and primary balance after the first accrual
\*                  computation of an uninterrupted accrual run (Null: none)
\*   snapMid        time of the first later accrual computation of the run
\*   snapCredit     the stake, referral and funding credits made to the
\*                  primary balance during the run
\*   fundings       how often /api/admin/fund-user has funded it
NoHistory ==
  [ hashes |-> {}, stakedInCycle |-> FALSE, drawn |-> Null, shown |-> FALSE,
    collected |-> FALSE,
    snapT |-> Null, snapBal |-> 0, snapMid |-> Null, snapCredit |-> 0,
    fundings |-> 0 ]

EndRun(r) ==
  [r EXCEPT !.snapT = Null, !.snapBal = 0, !.snapMid = Null, !.snapCredit = 0]

DropSnapshot(h, a) == [h EXCEPT !.of[a] = EndRun(@)]

\* every user's cycle history ends at a cycle reset
ResetHistory(h) ==
  [h EXCEPT !.of = [a \in Addresses |->
                      [EndRun(h.of[a]) EXCEPT !.stakedInCycle = FALSE,
                                              !.drawn = Null, !.shown = FALSE,
                                              !.collected = FALSE]],
            !.pause = <<>>, !.fullRestart = FALSE]

\* a cycle reset by the handler `by`, with the documents us before the sweep
\* (resetBy: the handler of the last reset; swept: the addresses whose reveal
\* of the ended cycle the sweep cleared)
NoteReset(h, us, by) ==
  [ResetHistory(h) EXCEPT
     !.resetBy = by,
     !.swept = {a \in DOMAIN us : us[a].claimedEventRewardTime # Null}]

\* an accrual computation for address a at time t left the document u: it
\* starts a run when a is staked with a numeric balance, the event is running
\* and no run is open
NoteAccrual(h, a, u, gs, t) ==
  IF /\ h.of[a].snapT = Null
     /\ IsPositive(u.slotsStaked)
     /\ IsNumber(u.BXC_Balance)
     /\ ~gs.isPaused
     /\ gs.eventStartTime <= t /\ t <= gs.eventEndTime
  THEN [h EXCEPT !.of[a].snapT = t, !.of[a].snapBal = u.BXC_Balance]
  ELSE IF h.of[a].snapT # Null /\ h.of[a].snapMid = Null /\ t > h.of[a].snapT
  THEN [h EXCEPT !.of[a].snapMid = t]
  ELSE h

\* a withdrawal was answered with `reason` (heldBack: a withdrawal has been
\* rejected because withdrawals are paused)
NoteRejection(h, reason) ==
  [h EXCEPT !.heldBack = @ \/ reason = "withdrawals_paused"]

\* a credit other than accrual reached the primary balance of address a
NoteCredit(h, a, amount) ==
  IF h.of[a].snapT = Null THEN h ELSE [h EXCEPT !.of[a].snapCredit = @ + amount]

\* --------------------------------------------------- requests in flight
\* Two requests whose store operations (each await of a handler) interleave.
\* A request in flight holds what its handler holds in local variables:
\*   pc      the store operation it performs next ("idle": not arrived,
\*           "done": answered)
\*   addr, hash, draw  its inputs
\*   t       const now = new Date() of the handler
\*   found, user       the document findOne returned for addr (found = FALSE:
\*                     null)
\*   gs      the globalState document findOne returned
\*   maxSlots  const currentMaxStakeSlots of /api/stake
\*   seen    the number of requests served when it arrived
\*   left    what was left when it arrived: the free slots (maxStakeSlots -
\*           totalSlotsUsed) for a stake, the balance it found for a withdrawal
\*   token, amount     the inputs of a withdrawal
\*   result  "accepted" (200), "rejected" (400) or "none"
Racers == {1, 2}

IdleRequest ==
  [ pc |-> "idle", addr |-> "a1", hash |-> "h1", draw |-> 0, t |-> 0,
    found |-> FALSE, user |-> NewUser("a1", 0), gs |-> DefaultGlobalState(0),
    maxSlots |-> 0, seen |-> 0, left |-> 0, token |-> "BXC", amount |-> Undef,
    result |-> "none" ]

\* neither of the two requests has arrived
Quiet == \A i \in Racers : inflight[i].pc = "idle"

\* the two requests are numbered in the order of their arrival
NextToArrive(i) ==
  /\ inflight[i].pc = "idle"
  /\ \A j \in Racers : j < i => inflight[j].pc # "idle"

\* ---------------------------------------------------------------- Init
\* connectToMongo on an empty database: ensureGlobalStateInitialized inserts
\* the default globalState; there are no users
Init ==
  /\ now = 0
  /\ globalState = DefaultGlobalState(0)
  /\ users = [a \in {} |-> NoHistory]
  /\ hist = [of |-> [a \in Addresses |-> NoHistory], pause |-> <<>>,
             fullRestart |-> FALSE, resetBy |-> "none", swept |-> {},
             duration |-> Null, heldBack |-> FALSE]
  /\ requests = 0
  /\ inflight = [i \in Racers |-> IdleRequest]
  /\ env = [ADMIN_WALLET_ADDRESS |-> AdminWallet]

\* one more request is served, from its first to its last store operation
Served ==
  /\ requests < MaxRequests
  /\ requests' = requests + 1
  /\ UNCHANGED <<inflight, env>>

\* time passes between two requests
Tick ==
  /\ now < MaxTime
  /\ now' = now + 1
  /\ UNCHANGED <<globalState, users, hist, requests, inflight, env>>

\* POST /api/status with a wallet address
Status(addr) ==
  /\ IF addr \in DOMAIN users
     THEN /\ users' = [users EXCEPT ![addr] = CalculateAndSaveBXC(@, globalState, now)]
          /\ hist' = NoteAccrual(hist, addr, users'[addr], globalState, now)
     ELSE /\ users' = [a \in DOMAIN users \cup {addr} |->
                         IF a = addr THEN NewUser(addr, now) ELSE users[a]]
          /\ hist' = hist
  /\ UNCHANGED <<now, globalState>>
  /\ Served

\* -------------------------------------------------- event cycle manager
\* (globalState.maxStakeSlots || 30000)
CurrentMaxStakeSlots(gs) ==
  IF gs.maxStakeSlots = 0 THEN DefaultMaxStakeSlots ELSE gs.maxStakeSlots

\* (globalState.initialStakeAmountUSD || 8)
CurrentInitialStakeAmount(gs) ==
  IF gs.initialStakeAmountUSD = 0 THEN DefaultInitialStakeAmountUSD
  ELSE gs.initialStakeAmountUSD

CycleEndedOnExpiryOnly(gs, t) == t > gs.eventEndTime

\* the condition of line 358 under which a stake starts a new cycle
CycleEnded(gs, t) ==
  gs.totalSlotsUsed >= CurrentMaxStakeSlots(gs) \/ t > gs.eventEndTime

\* the $set of lines 363-375; globalState has no field EVENT_DURATION_HOURS,
\* so the new cycle lasts the default 95 hours
StakeCycleReset(gs, t) ==
  [gs EXCEPT !.totalSlotsUsed = 0, !.eventStartTime = t,
             !.eventEndTime = t + DefaultDurationTicks,
             !.isPaused = FALSE, !.pauseStartTime = Null,
             !.withdrawalsPaused = FALSE, !.lastResetTime = t,
             !.totalAinRewarded = 0]

\* the globalState a stake request at time t works on: the one it read, or
\* the new cycle it starts (lines 350-387)
StakeGlobalState(gs, t) ==
  IF ~gs.isPaused /\ CycleEnded(gs, t) THEN StakeCycleReset(gs, t) ELSE gs

HasStakedInCurrentCycle(user, gs) ==
  \E i \in DOMAIN user.stakeTransactions :
     user.stakeTransactions[i].timestamp >= gs.eventStartTime

HashRecorded(user, hash) ==
  \E i \in DOMAIN user.stakeTransactions : user.stakeTransactions[i].hash = hash

\* why /api/stake at time t answers 400, "ok" when it does not
StakeRejection(us, gs, addr, hash, t) ==
  IF gs.isPaused THEN "paused"
  ELSE IF StakeGlobalState(gs, t).totalSlotsUsed >= CurrentMaxStakeSlots(gs)
       THEN "slots_filled"
  ELSE IF addr \in DOMAIN us /\ HasStakedInCurrentCycle(us[addr], StakeGlobalState(gs, t))
       THEN "already_staked"
  ELSE IF addr \in DOMAIN us /\ HashRecorded(us[addr], hash) THEN "duplicate_hash"
  ELSE "ok"

StakeUpdateWithDefaultAmount(user, gs, hash, t) ==
  [user EXCEPT !.slotsStaked = Inc(@, 1),
               !.BXC_Balance = Inc(@, INITIAL_BXC),
               !.stakedUSDValue = DefaultInitialStakeAmountUSD,
               !.lastBXCAccrualTime = t,
               !.stakeTransactions =
                   Append(@, [hash |-> hash, timestamp |-> t,
                              amountUSD |-> DefaultInitialStakeAmountUSD])]

\* the update of the staker's document, lines 431-441
StakeUpdate(user, gs, hash, t) ==
  [user EXCEPT !.slotsStaked = Inc(@, 1),
               !.BXC_Balance = Inc(@, INITIAL_BXC),
               !.stakedUSDValue = CurrentInitialStakeAmount(gs),
               !.lastBXCAccrualTime = t,
               !.stakeTransactions =
                   Append(@, [hash |-> hash, timestamp |-> t,
                              amountUSD |-> CurrentInitialStakeAmount(gs)])]

\* the users a referrer code resolves to (lines 449-451)
ReferrersOf(us, addr, ref) ==
  IF ref # NoRef /\ ref # ReferralCodeOf(addr)
  THEN {a \in DOMAIN us : us[a].referralCode = ref}
  ELSE {}

\* POST /api/stake
Stake(addr, hash, ref) ==
  LET ended == ~globalState.isPaused /\ CycleEnded(globalState, now)
      gs1 == StakeGlobalState(globalState, now)
      us1 == IF ended THEN SweepRewardFlags(users) ELSE users
      h1 == IF ended
            THEN [NoteReset(hist, users, "stake") EXCEPT
                    !.fullRestart = (now <= globalState.eventEndTime)]
            ELSE hist
      exists == addr \in DOMAIN us1
      u0 == IF exists THEN CalculateAndSaveBXC(us1[addr], gs1, now)
            ELSE NewUser(addr, now)
      us2 == [a \in DOMAIN us1 \cup {addr} |->
                IF a = addr THEN StakeUpdate(u0, gs1, hash, now) ELSE us1[a]]
      gs2 == [gs1 EXCEPT !.totalSlotsUsed = @ + 1]
      refs == ReferrersOf(us2, addr, ref)
      us3 == [a \in DOMAIN us2 |->
                IF a \in refs
                THEN [CalculateAndSaveBXC(us2[a], gs2, now) EXCEPT
                        !.BXC_Balance = Inc(@, REFERRAL_BXC),
                        !.referralCount = Inc(@, 1)]
                ELSE us2[a]]
      ha == IF exists
            THEN NoteCredit(NoteAccrual(h1, addr, u0, gs1, now), addr, INITIAL_BXC)
            ELSE h1
      hr(a) == NoteCredit(NoteAccrual(ha, a, CalculateAndSaveBXC(us2[a], gs2, now),
                                      gs2, now), a, REFERRAL_BXC)
      h2 == [ha EXCEPT !.of = [a \in Addresses |->
               IF a = addr
               THEN [ha.of[a] EXCEPT !.hashes = @ \cup {hash},
                                     !.stakedInCycle = TRUE]
               ELSE IF a \in refs THEN hr(a).of[a]
               ELSE ha.of[a]]]
  IN /\ \A a \in ReferrersOf(users, addr, ref) : OrZero(users[a].referralCount) < MaxReferrals
     /\ IF StakeRejection(users, globalState, addr, hash, now) # "ok"
        THEN /\ globalState' = gs1
             /\ users' = us1
             /\ hist' = h1
        ELSE /\ globalState' = gs2
             /\ users' = us3
             /\ hist' = h2
     /\ UNCHANGED now
     /\ Served

\* why /api/withdraw-stake answers 400 after the accrual, "ok" when it does not
WithdrawStakeRejection(user, gs, t) ==
  IF IsLess(user.stakedUSDValue, CurrentInitialStakeAmount(gs)) \/ IsZero(user.slotsStaked)
  THEN "no_active_stake"
  ELSE IF gs.isPaused THEN "paused"
  ELSE IF gs.withdrawalsPaused THEN "withdrawals_paused"
  ELSE IF t > gs.eventStartTime THEN "event_started"
  ELSE "ok"

\* POST /api/withdraw-stake; for an unknown address calculateAndSaveBXC(null)
\* throws and nothing is written
WithdrawStake(addr) ==
  /\ addr \in DOMAIN users
  /\ LET u1 == CalculateAndSaveBXC(users[addr], globalState, now)
     IN IF WithdrawStakeRejection(u1, globalState, now) # "ok"
        THEN /\ users' = [users EXCEPT ![addr] = u1]
             /\ globalState' = globalState
             /\ hist' = NoteRejection(NoteAccrual(hist, addr, u1, globalState, now),
                                      WithdrawStakeRejection(u1, globalState, now))
        ELSE /\ users' = [users EXCEPT ![addr] =
                   [u1 EXCEPT !.slotsStaked = 0, !.stakedUSDValue = 0,
                              !.stakeTransactions = <<>>, !.BXC_Balance = 0,
                              !.lastBXCAccrualTime = now,
                              !.claimedEventRewardTime = Null,
                              !.collectedEventRewardTime = Null,
                              !.lastRevealedUSDAmount = 0, !.AIN_Balance = 0]]
             /\ globalState' = [globalState EXCEPT !.totalSlotsUsed = @ - 1]
             /\ hist' = DropSnapshot(hist, addr)
  /\ UNCHANGED now
  /\ Served

\* --------------------------------------------------- reward draw engine
\* why /api/reveal-reward answers 400, "ok" when it does not (lines 587-596)
RevealRejection(us, gs, addr, t) ==
  IF addr \notin DOMAIN us \/ IsZero(us[addr].slotsStaked) THEN "must_stake"
  ELSE IF gs.isPaused THEN "paused"
  ELSE IF t < gs.eventEndTime THEN "not_ended"
  ELSE "ok"

AlreadyRevealedByCollectTime(user, gs) ==
  user.collectedEventRewardTime # Null /\ user.collectedEventRewardTime >= gs.eventStartTime

\* line 598: the user has revealed in the current cycle
AlreadyRevealed(user, gs) ==
  user.claimedEventRewardTime # Null /\ user.claimedEventRewardTime >= gs.eventStartTime

\* lines 599-606: the AIN amount the already-revealed branch answers with
RevealedAin(user) == UsdToAin(OrZero(user.lastRevealedUSDAmount))

\* lines 626-635: the reward in milli-USD; draw is the amount Math.random picks
\* (0: no win)
DrawnRewardUSD(gs, draw) ==
  IF gs.totalSlotsUsed <= LUCKY_WINNER_SLOT_THRESHOLD THEN draw ELSE 0

\* line 640: the draw does not fit into what is left of the pool
ExceedsPool(gs, ain) ==
  gs.maxAinRewardPool > 0 /\ gs.totalAinRewarded + ain > gs.maxAinRewardPool

\* lines 637-648: the AIN amount after the enforcement of the pool cap
ClampedAin(gs, rewardUSD) ==
  IF ExceedsPool(gs, UsdToAin(rewardUSD))
  THEN Max(0, gs.maxAinRewardPool - gs.totalAinRewarded)
  ELSE UsdToAin(rewardUSD)

\* lines 637-648: the USD amount stored on the user
ClampedUSD(gs, rewardUSD) ==
  IF ExceedsPool(gs, UsdToAin(rewardUSD))
  THEN AinToUsd(ClampedAin(gs, rewardUSD))
  ELSE rewardUSD

\* POST /api/reveal-reward
RevealReward(addr, draw) ==
  LET rewardUSD == DrawnRewardUSD(globalState, draw)
      ain == ClampedAin(globalState, rewardUSD)
      usd == ClampedUSD(globalState, rewardUSD)
  IN /\ RevealRejection(users, globalState, addr, now) = "ok"
     /\ IF AlreadyRevealed(users[addr], globalState)
        THEN /\ UNCHANGED <<globalState, users>>
             /\ hist' = [hist EXCEPT !.of[addr].shown = TRUE]
        ELSE /\ globalState' = [globalState EXCEPT !.totalAinRewarded =
                                  IF ain > 0 THEN @ + ain ELSE @]
             /\ users' = [users EXCEPT ![addr].claimedEventRewardTime = now,
                                       ![addr].lastRevealedUSDAmount = usd]
             /\ hist' = [hist EXCEPT !.of[addr].drawn = usd,
                                     !.of[addr].shown = FALSE]
     /\ UNCHANGED now
     /\ Served

AlreadyCollectedBeforeCycle(user, gs) ==
  user.collectedEventRewardTime # Null /\ user.collectedEventRewardTime < gs.eventStartTime

\* line 720: the user has collected in the current cycle
AlreadyCollected(user, gs) ==
  user.collectedEventRewardTime # Null /\ user.collectedEventRewardTime >= gs.eventStartTime

NothingToCollectWhenNegative(user) == IsLess(user.lastRevealedUSDAmount, 0)

\* lines 727-730: ainAmountToCollect === 0
NothingToCollect(user) == ~IsPositive(user.lastRevealedUSDAmount)

\* why /api/collect-reward answers 400, "ok" when it does not (lines 708-732)
CollectRejection(us, gs, addr, t) ==
  IF addr \notin DOMAIN us \/ IsZero(us[addr].slotsStaked) THEN "must_stake"
  ELSE IF gs.isPaused THEN "paused"
  ELSE IF t < gs.eventEndTime THEN "not_ended"
  ELSE IF us[addr].claimedEventRewardTime = Null
          \/ us[addr].claimedEventRewardTime < gs.eventStartTime
       THEN "reveal_first"
  ELSE IF AlreadyCollected(us[addr], gs) THEN "already_collected"
  ELSE IF NothingToCollect(us[addr]) THEN "nothing_to_collect"
  ELSE "ok"

\* lines 727-728: the AIN amount a collect credits
AinToCollect(user) == UsdToAin(OrZero(user.lastRevealedUSDAmount))

\* POST /api/collect-reward
CollectReward(addr) ==
  /\ CollectRejection(users, globalState, addr, now) = "ok"
  /\ users' = [users EXCEPT
        ![addr].AIN_Balance = Inc(@, AinToCollect(users[addr])),
        ![addr].collectedEventRewardTime = now]
  /\ hist' = [hist EXCEPT !.of[addr].collected = TRUE]
  /\ UNCHANGED <<now, globalState>>
  /\ Served

\* ------------------------------------------------------------ withdrawals
WithdrawAmountUnchecked(amount, balance) ==
  IF amount # Undef /\ amount # 0 THEN amount ELSE balance

\* lines 792 and 844: the requested amount when it is usable, else the balance
\* (an absent amount and the amount 0 are falsy)
WithdrawAmount(amount, balance) ==
  IF amount # Undef /\ amount # 0 /\ amount > 0 /\ IsAtMost(amount, balance)
  THEN amount ELSE balance

NotNegated(x) == IF IsNumber(x) THEN x ELSE NaN

\* -withdrawAmount: the negation of undefined or NaN is NaN
Negated(x) == IF IsNumber(x) THEN 0 - x ELSE NaN

WithdrawRejectionIgnoringWithdrawalsPause(balance, gs) ==
  IF IsAtMost(balance, 0) THEN "no_balance"
  ELSE IF gs.isPaused THEN "paused"
  ELSE "ok"

\* why /api/withdraw and /api/withdrawAIN answer 400, "ok" when they do not
WithdrawRejection(balance, gs) ==
  IF IsAtMost(balance, 0) THEN "no_balance"
  ELSE IF gs.isPaused THEN "paused"
  ELSE IF gs.withdrawalsPaused THEN "withdrawals_paused"
  ELSE "ok"

\* POST /api/withdraw (token BXC); for an unknown address
\* calculateAndSaveBXC(null) throws and nothing is written
WithdrawBXC(addr, amount) ==
  /\ addr \in DOMAIN users
  /\ LET u1 == CalculateAndSaveBXC(users[addr], globalState, now)
         w == WithdrawAmount(amount, u1.BXC_Balance)
     IN IF WithdrawRejection(u1.BXC_Balance, globalState) # "ok"
        THEN /\ users' = [users EXCEPT ![addr] = u1]
             /\ hist' = NoteRejection(NoteAccrual(hist, addr, u1, globalState, now),
                                      WithdrawRejection(u1.BXC_Balance, globalState))
        ELSE /\ users' = [users EXCEPT ![addr] =
                            [u1 EXCEPT !.BXC_Balance = Inc(@, Negated(w))]]
             /\ hist' = DropSnapshot(hist, addr)
  /\ UNCHANGED <<now, globalState>>
  /\ Served

\* POST /api/withdrawAIN
WithdrawAIN(addr, amount) ==
  /\ addr \in DOMAIN users
  /\ WithdrawRejection(users[addr].AIN_Balance, globalState) = "ok"
  /\ users' = [users EXCEPT ![addr].AIN_Balance =
                  Inc(@, Negated(WithdrawAmount(amount, users[addr].AIN_Balance)))]
  /\ UNCHANGED <<now, globalState, hist>>
  /\ Served

\* why /api/referral-copied answers 400 after the accrual, "ok" when it does not
ReferralCopyRejection(user, gs) ==
  IF IsZero(user.slotsStaked) THEN "must_stake"
  ELSE IF gs.isPaused THEN "paused"
  ELSE IF user.lastReferralCopyBonusGiven # Null
          /\ user.lastReferralCopyBonusGiven >= gs.eventStartTime
       THEN "already_received"
  ELSE "ok"

\* POST /api/referral-copied; for an unknown address calculateAndSaveBXC(null)
\* throws and nothing is written
ReferralCopied(addr) ==
  /\ addr \in DOMAIN users
  /\ LET u1 == CalculateAndSaveBXC(users[addr], globalState, now)
     IN IF ReferralCopyRejection(u1, globalState) # "ok"
        THEN /\ users' = [users EXCEPT ![addr] = u1]
             /\ hist' = NoteAccrual(hist, addr, u1, globalState, now)
        ELSE /\ users' = [users EXCEPT ![addr] =
                   [u1 EXCEPT !.BXC_Balance = Inc(@, REFERRAL_COPY_BXC_BONUS),
                              !.lastReferralCopyBonusGiven = now]]
             /\ hist' = NoteCredit(NoteAccrual(hist, addr, u1, globalState, now),
                                   addr, REFERRAL_COPY_BXC_BONUS)
  /\ UNCHANGED <<now, globalState>>
  /\ Served

\* ------------------------------------------------------- admin controller
\* line 70: the configured admin address, lower-cased, '' when unset
ADMIN_WALLET_ADDRESS == ToLowerCase(env.ADMIN_WALLET_ADDRESS)

\* the request of a caller that is not the admin is answered 403 and writes
\* nothing
isAdminWithoutPresenceCheck(walletAddress) ==
  ToLowerCase(walletAddress) = ADMIN_WALLET_ADDRESS

isAdmin(walletAddress) ==
  walletAddress # "" /\ ToLowerCase(walletAddress) = ADMIN_WALLET_ADDRESS

\* lines 944-946, 1003-1005, 1059-1061, 1096-1098, 1145-1147, 1177-1179,
\* 1209-1211, 1241-1243, 1273-1275: the answer 403 of every admin handler
AccessDenied(caller) ==
  /\ ~isAdmin(caller)
  /\ UNCHANGED <<now, globalState, users, hist>>
  /\ Served

\* POST /api/admin/users-leaderboard: reads the users, writes nothing
AdminUsersLeaderboard(caller) ==
  /\ isAdmin(caller)
  /\ UNCHANGED <<now, globalState, users, hist>>
  /\ Served

TogglePauseWithoutShift(gs, t) ==
  IF ~gs.isPaused
  THEN [gs EXCEPT !.isPaused = TRUE, !.pauseStartTime = t]
  ELSE [gs EXCEPT !.isPaused = FALSE, !.pauseStartTime = Null]

\* the new isPaused, pauseStartTime and eventEndTime of lines 957-975
TogglePause(gs, t) ==
  IF ~gs.isPaused
  THEN [gs EXCEPT !.isPaused = TRUE, !.pauseStartTime = t]
  ELSE [gs EXCEPT !.isPaused = FALSE, !.pauseStartTime = Null,
                  !.eventEndTime = IF gs.pauseStartTime # Null
                                   THEN @ + (t - gs.pauseStartTime) ELSE @]

\* POST /api/admin/toggle-event-pause
AdminToggleEventPause(caller) ==
  /\ isAdmin(caller)
  /\ globalState' = TogglePause(globalState, now)
  /\ hist' = [hist EXCEPT
       !.of = [a \in Addresses |-> EndRun(hist.of[a])],
       !.pause = IF globalState.isPaused /\ globalState.pauseStartTime # Null
                 THEN <<globalState.pauseStartTime, now>> ELSE @]
  /\ UNCHANGED <<now, users>>
  /\ Served

DurationResetKeepingPauseStart(gs, t, duration) ==
  [gs EXCEPT !.totalSlotsUsed = 0, !.eventStartTime = t,
             !.eventEndTime = t + duration, !.isPaused = FALSE,
             !.lastResetTime = t, !.totalAinRewarded = 0]

\* the $set of lines 1017-1030
DurationReset(gs, t, duration) ==
  [gs EXCEPT !.totalSlotsUsed = 0, !.eventStartTime = t,
             !.eventEndTime = t + duration, !.isPaused = FALSE,
             !.pauseStartTime = Null, !.lastResetTime = t, !.totalAinRewarded = 0]

\* POST /api/admin/set-event-duration
AdminSetEventDuration(caller, duration) ==
  /\ isAdmin(caller)
  /\ globalState' = DurationReset(globalState, now, duration)
  /\ users' = SweepRewardFlags(users)
  /\ hist' = [NoteReset(hist, users, "admin") EXCEPT !.duration = duration]
  /\ UNCHANGED now
  /\ Served

\* POST /api/admin/toggle-withdrawals-pause
AdminToggleWithdrawalsPause(caller) ==
  /\ isAdmin(caller)
  /\ globalState' = [globalState EXCEPT !.withdrawalsPaused = ~@]
  /\ UNCHANGED <<now, users, hist>>
  /\ Served

\* POST /api/admin/set-staking-wallet, set-stake-amount, set-max-slots and
\* set-ain-reward-pool: one $set of one field of globalState, after the
\* validation of the value (done on the inputs)
AdminSet(caller, field, value) ==
  /\ isAdmin(caller)
  /\ globalState' = [globalState EXCEPT ![field] = value]
  /\ UNCHANGED <<now, users, hist>>
  /\ Served

AdminSetStakingWallet(caller) == AdminSet(caller, "stakingRecipientAddress", "0xnew")
AdminSetStakeAmount(caller, amount) == AdminSet(caller, "initialStakeAmountUSD", amount)
AdminSetMaxSlots(caller, slots) == AdminSet(caller, "maxStakeSlots", slots)
AdminSetAinRewardPool(caller, pool) == AdminSet(caller, "maxAinRewardPool", pool)

\* POST /api/admin/fund-user: $inc with upsert
AdminFundUser(caller, target, token) ==
  LET field == IF token = "BXC" THEN "BXC_Balance" ELSE "AIN_Balance"
  IN /\ isAdmin(caller)
     /\ hist.of[target].fundings < MaxFundings
     /\ users' = [a \in DOMAIN users \cup {target} |->
                    IF a # target THEN users[a]
                    ELSE IF target \in DOMAIN users
                    THEN [users[a] EXCEPT ![field] = Inc(@, FundAmount(token))]
                    ELSE UpsertedUser(field, FundAmount(token))]
     /\ hist' = [(IF token = "BXC"
                   THEN NoteCredit(hist, target, FundAmount(token)) ELSE hist)
                   EXCEPT !.of[target].fundings = @ + 1]
     /\ UNCHANGED <<now, globalState>>
     /\ Served

\* the $set of lines 113-127 of ensureGlobalStateInitialized
StartupReset(gs, t) ==
  [gs EXCEPT !.totalSlotsUsed = 0, !.eventStartTime = t,
             !.eventEndTime = t + DefaultDurationTicks, !.isPaused = FALSE,
             !.pauseStartTime = Null, !.lastResetTime = t,
             !.initialStakeAmountUSD = CurrentInitialStakeAmount(gs),
             !.maxStakeSlots = CurrentMaxStakeSlots(gs),
             !.maxAinRewardPool = IF @ = 0 THEN AinUnits(DefaultMaxAinRewardPool) ELSE @,
             !.totalAinRewarded = 0]

\* a restart of the process: ensureGlobalStateInitialized finds the stored
\* globalState expired (an unexpired one with all its fields is left alone)
Startup ==
  /\ now > globalState.eventEndTime
  /\ globalState' = StartupReset(globalState, now)
  /\ users' = SweepRewardFlags(users)
  /\ hist' = NoteReset(hist, users, "startup")
  /\ UNCHANGED now
  /\ Served

\* ------------------------------------------------ startup initialization
\* the globalState document the earlier version of the program upserts
\* (src/index.js, lines 107-116): it has these four fields only
LegacyGlobalState(t) ==
  [ totalSlotsUsed |-> 0, eventStartTime |-> t,
    eventEndTime |-> t + DefaultDurationTicks, lastResetTime |-> t ]

\* what collection globalState can hold when the process starts: nothing, the
\* document of the earlier version, the document this version inserts
StoredAtStartup ==
  {<<>>, <<LegacyGlobalState(0)>>, <<DefaultGlobalState(0)>>}

\* updateOne({}, {$set: fields}) on the document d
SetFields(d, fields) ==
  [f \in DOMAIN d \cup DOMAIN fields |-> IF f \in DOMAIN fields THEN fields[f] ELSE d[f]]

\* (d.f || default): the default replaces a missing field and the falsy
\* value (0 for a number, '' for an address)
OrDefault(d, f, falsy, default) ==
  IF f \in DOMAIN d /\ d[f] # falsy THEN d[f] ELSE default

\* line 106: the stored document has no cycle or an expired one
StartupExpired(d, t) ==
  \/ "eventStartTime" \notin DOMAIN d
  \/ "eventEndTime" \notin DOMAIN d
  \/ t > d.eventEndTime

\* lines 113-127: the $set of the expired branch (withdrawalsPaused is not
\* among its fields)
StartupResetFields(d, t) ==
  [ totalSlotsUsed |-> 0, eventStartTime |-> t,
    eventEndTime |-> t + DefaultDurationTicks,
    isPaused |-> FALSE, pauseStartTime |-> Null, lastResetTime |-> t,
    stakingRecipientAddress |-> OrDefault(d, "stakingRecipientAddress", "", "0xYourDefault"),
    initialStakeAmountUSD |-> OrDefault(d, "initialStakeAmountUSD", 0, DefaultInitialStakeAmountUSD),
    maxStakeSlots |-> OrDefault(d, "maxStakeSlots", 0, DefaultMaxStakeSlots),
    maxAinRewardPool |-> OrDefault(d, "maxAinRewardPool", 0,
                                  AinUnits(DefaultMaxAinRewardPool)),
    totalAinRewarded |-> 0 ]

\* lines 145-153: the defaults of the fields a stored document may lack
StartupDefaults ==
  [ stakingRecipientAddress |-> "0xYourDefault",
    initialStakeAmountUSD |-> DefaultInitialStakeAmountUSD,
    maxStakeSlots |-> DefaultMaxStakeSlots,
    maxAinRewardPool |-> AinUnits(DefaultMaxAinRewardPool),
    totalAinRewarded |-> 0, isPaused |-> FALSE, pauseStartTime |-> Null,
    withdrawalsPaused |-> FALSE ]

\* ensureGlobalStateInitialized at time t on the collection stored (no
\* document or one): the collection it leaves.  The unexpired branch $sets
\* the fields the document lacks (lines 145-158)
ensureGlobalStateInitialized(stored, t) ==
  IF stored = <<>> THEN <<DefaultGlobalState(t)>>
  ELSE IF StartupExpired(stored[1], t)
  THEN <<SetFields(stored[1], StartupResetFields(stored[1], t))>>
  ELSE <<SetFields(stored[1],
                   [f \in DOMAIN StartupDefaults \ DOMAIN stored[1] |->
                      StartupDefaults[f]])>>

\* lines 133-142: the users it leaves; the expired branch sweeps the reward
\* flags
ensuredUsers(stored, us, t) ==
  IF stored # <<>> /\ StartupExpired(stored[1], t)
  THEN SweepRewardFlags(us) ELSE us

\* a restart of the process: ensureGlobalStateInitialized on the stored
\* globalState, whatever branch it takes
Restart ==
  /\ globalState' = ensureGlobalStateInitialized(<<globalState>>, now)[1]
  /\ users' = ensuredUsers(<<globalState>>, users, now)
  /\ hist' = IF StartupExpired(globalState, now)
             THEN NoteReset(hist, users, "startup") ELSE hist
  /\ UNCHANGED now
  /\ Served


\* ---------------------------------------------------------------- Next
Next ==
  \/ Tick
  \/ \E a \in Addresses : Status(a)
  \/ \E a \in Addresses, h \in Hashes, r \in ReferrerRefs : Stake(a, h, r)
  \/ \E a \in Addresses : WithdrawStake(a)
  \/ \E a \in Addresses, d \in RewardDraws : RevealReward(a, d)
  \/ \E a \in Addresses : CollectReward(a)
  \/ \E a \in Addresses, m \in BxcAmounts : WithdrawBXC(a, m)
  \/ \E a \in Addresses, m \in AinAmounts : WithdrawAIN(a, m)
  \/ \E a \in Addresses : ReferralCopied(a)
  \/ \E c \in Callers : AdminToggleEventPause(c)
  \/ \E c \in Callers, d \in DurationInputs : AdminSetEventDuration(c, d)
  \/ \E c \in Callers : AdminToggleWithdrawalsPause(c)
  \/ \E c \in Callers : AdminSetStakingWallet(c)
  \/ \E c \in Callers, m \in StakeAmountInputs : AdminSetStakeAmount(c, m)
  \/ \E c \in Callers, n \in MaxSlotsInputs : AdminSetMaxSlots(c, n)
  \/ \E c \in Callers, p \in RewardPoolInputs : AdminSetAinRewardPool(c, p)
  \/ \E c \in Callers, a \in Addresses, k \in FundTokens : AdminFundUser(c, a, k)
  \/ \E c \in Callers : AdminUsersLeaderboard(c)
  \/ \E c \in Callers : AccessDenied(c)
  \/ Startup

Spec == Init /\ [][Next]_vars

\* The handlers that decide the reveal / collect claims: staking, the reward
\* draw and its collection, the pool cap, pause, funding and the cycle resets
NextReward ==
  \/ Tick
  \/ \E a \in Addresses : Stake(a, "h1", NoRef)
  \/ \E a \in Addresses : WithdrawStake(a)
  \/ \E a \in Addresses, d \in RewardDraws : RevealReward(a, d)
  \/ \E a \in Addresses : CollectReward(a)
  \/ \E c \in Callers : AdminToggleEventPause(c)
  \/ \E c \in Callers, d \in DurationInputs : AdminSetEventDuration(c, d)
  \/ \E c \in Callers, p \in RewardPoolInputs : AdminSetAinRewardPool(c, p)
  \/ \E c \in Callers, a \in Addresses : AdminFundUser(c, a, "AIN")
  \/ Startup

SpecReward == Init /\ [][NextReward]_vars

\* The handlers that decide the slot and replay claims
NextStake ==
  \/ Tick
  \/ \E a \in Addresses, h \in Hashes : Stake(a, h, NoRef)
  \/ \E a \in Addresses : WithdrawStake(a)
  \/ \E c \in Callers : AdminToggleEventPause(c)
  \/ \E c \in Callers, d \in DurationInputs : AdminSetEventDuration(c, d)
  \/ \E c \in Callers, n \in MaxSlotsInputs : AdminSetMaxSlots(c, n)
  \/ Startup

SpecStake == Init /\ [][NextStake]_vars

\* The handlers that decide the accrual claims
\* the cycle resets with the requests that set what a reset clears or keeps
NextCycle ==
  \/ Tick
  \/ \E a \in Addresses : Stake(a, "h1", NoRef)
  \/ \E a \in Addresses : RevealReward(a, MilliUsd(REWARD_USD_REGULAR_MIN))
  \/ \E a \in Addresses : ReferralCopied(a)
  \/ \E c \in Callers : AdminToggleWithdrawalsPause(c)
  \/ \E c \in Callers, d \in DurationInputs : AdminSetEventDuration(c, d)
  \/ \E c \in Callers : AdminSetStakingWallet(c)
  \/ \E c \in Callers, n \in StakeAmountInputs : AdminSetStakeAmount(c, n)
  \/ \E c \in Callers : AdminSetMaxSlots(c, 1)
  \/ \E c \in Callers : AdminSetAinRewardPool(c, 0)
  \/ Startup

SpecCycle == Init /\ [][NextCycle]_vars

NextAccrual ==
  \/ Tick
  \/ \E a \in Addresses : Status(a)
  \/ \E a \in Addresses, r \in ReferrerRefs : Stake(a, "h1", r)
  \/ \E a \in Addresses : WithdrawBXC(a, Undef)
  \/ \E a \in Addresses : ReferralCopied(a)
  \/ \E c \in Callers : AdminToggleEventPause(c)
  \/ \E c \in Callers, d \in DurationInputs : AdminSetEventDuration(c, d)
  \/ \E c \in Callers : AdminFundUser(c, "a1", "BXC")

SpecAccrual == Init /\ [][NextAccrual]_vars

\* ------------------------------------- /api/reveal-reward, step by step
\* line 584: the request arrives and reads the user document
RevealFindUser(i, addr, draw) ==
  /\ NextToArrive(i)
  /\ inflight' = [inflight EXCEPT ![i] =
       [@ EXCEPT !.pc = "reveal_find_global", !.addr = addr, !.draw = draw,
                 !.t = now, !.found = addr \in DOMAIN users,
                 !.user = IF addr \in DOMAIN users THEN users[addr] ELSE @,
                 !.seen = requests]]
  /\ UNCHANGED <<now, globalState, users, hist, requests, env>>

\* the documents a request in flight holds, as a collection
HeldUsers(r) == [a \in (IF r.found THEN {r.addr} ELSE {}) |-> r.user]

\* line 585: it reads globalState; lines 587-648 decide on what was read
RevealFindGlobalState(i) ==
  LET r == inflight[i]
      ain == ClampedAin(globalState, DrawnRewardUSD(globalState, r.draw))
  IN /\ r.pc = "reveal_find_global"
     /\ inflight' = [inflight EXCEPT ![i] =
          IF RevealRejection(HeldUsers(r), globalState, r.addr, r.t) # "ok"
          THEN [@ EXCEPT !.pc = "done", !.gs = globalState, !.result = "rejected"]
          ELSE IF AlreadyRevealed(r.user, globalState)
          THEN [@ EXCEPT !.pc = "done", !.gs = globalState, !.result = "accepted"]
          ELSE [@ EXCEPT !.pc = IF ain > 0 THEN "reveal_inc_pool"
                                ELSE "reveal_set_user",
                         !.gs = globalState]]
     /\ UNCHANGED <<now, globalState, users, hist, requests, env>>

\* lines 651-656: $inc totalAinRewarded by the amount computed from the
\* globalState read at line 585
RevealIncPool(i) ==
  LET r == inflight[i]
  IN /\ r.pc = "reveal_inc_pool"
     /\ globalState' = [globalState EXCEPT !.totalAinRewarded =
                          @ + ClampedAin(r.gs, DrawnRewardUSD(r.gs, r.draw))]
     /\ inflight' = [inflight EXCEPT ![i].pc = "reveal_set_user"]
     /\ UNCHANGED <<now, users, hist, requests, env>>

\* lines 658-666: $set of the reveal time and the reward on the user document
RevealSetUser(i) ==
  LET r == inflight[i]
  IN /\ r.pc = "reveal_set_user"
     /\ users' = [a \in DOMAIN users |->
                    IF a = r.addr
                    THEN [users[a] EXCEPT
                            !.claimedEventRewardTime = r.t,
                            !.lastRevealedUSDAmount =
                               ClampedUSD(r.gs, DrawnRewardUSD(r.gs, r.draw))]
                    ELSE users[a]]
     /\ inflight' = [inflight EXCEPT ![i].pc = "done", ![i].result = "accepted"]
     /\ UNCHANGED <<now, globalState, hist, requests, env>>

\* Two reveal requests in flight; the requests that set the scene (the
\* stakes, the pool cap, the passing of time) are served before they arrive
NextRevealRace ==
  \/ Quiet /\ Tick
  \/ Quiet /\ \E a \in Addresses : Stake(a, "h1", NoRef)
  \/ Quiet /\ \E c \in Callers, p \in RewardPoolInputs : AdminSetAinRewardPool(c, p)
  \/ \E i \in Racers, a \in Addresses, d \in RewardDraws : RevealFindUser(i, a, d)
  \/ \E i \in Racers : RevealFindGlobalState(i)
  \/ \E i \in Racers : RevealIncPool(i)
  \/ \E i \in Racers : RevealSetUser(i)

SpecRevealRace == Init /\ [][NextRevealRace]_vars

\* -------------------------------------------- /api/stake, step by step
\* line 344: the request arrives and reads the user document
StakeFindUser(i, addr, hash) ==
  /\ NextToArrive(i)
  /\ inflight' = [inflight EXCEPT ![i] =
       [@ EXCEPT !.pc = "stake_find_global", !.addr = addr, !.hash = hash,
                 !.t = now, !.found = addr \in DOMAIN users,
                 !.user = IF addr \in DOMAIN users THEN users[addr] ELSE @,
                 !.seen = requests,
                 !.left = CurrentMaxStakeSlots(globalState)
                            - globalState.totalSlotsUsed]]
  /\ UNCHANGED <<now, globalState, users, hist, requests, env>>

\* lines 390-404 on the documents the request holds: the slot check, then
\* the one-stake-per-cycle and duplicate-hash checks
StakeChecked(r, gs) ==
  IF \/ gs.totalSlotsUsed >= r.maxSlots
     \/ r.found /\ HasStakedInCurrentCycle(r.user, gs)
     \/ r.found /\ HashRecorded(r.user, r.hash)
  THEN [r EXCEPT !.pc = "done", !.gs = gs, !.result = "rejected"]
  ELSE [r EXCEPT !.pc = "stake_save_user", !.gs = gs]

\* line 345: it reads globalState; lines 350-358 decide between the answer
\* "paused", the cycle reset and the checks
StakeFindGlobalState(i) ==
  LET r == [inflight[i] EXCEPT !.gs = globalState,
                               !.maxSlots = CurrentMaxStakeSlots(globalState)]
  IN /\ inflight[i].pc = "stake_find_global"
     /\ inflight' = [inflight EXCEPT ![i] =
          IF globalState.isPaused
          THEN [r EXCEPT !.pc = "done", !.result = "rejected"]
          ELSE IF CycleEnded(globalState, r.t)
          THEN [r EXCEPT !.pc = "stake_reset"]
          ELSE StakeChecked(r, globalState)]
     /\ UNCHANGED <<now, globalState, users, hist, requests, env>>

\* lines 361-376: the $set of the cycle reset
StakeResetGlobalState(i) ==
  /\ inflight[i].pc = "stake_reset"
  /\ globalState' = StakeCycleReset(globalState, inflight[i].t)
  /\ inflight' = [inflight EXCEPT ![i].pc = "stake_refetch"]
  /\ UNCHANGED <<now, users, hist, requests, env>>

\* line 377: the refetch of globalState
StakeRefetchGlobalState(i) ==
  /\ inflight[i].pc = "stake_refetch"
  /\ inflight' = [inflight EXCEPT ![i].pc = "stake_sweep", ![i].gs = globalState]
  /\ UNCHANGED <<now, globalState, users, hist, requests, env>>

\* lines 379-386: the updateMany of the reset, then the checks of lines
\* 390-404 on the refetched globalState
StakeSweepUsers(i) ==
  LET r == inflight[i]
  IN /\ r.pc = "stake_sweep"
     /\ users' = SweepRewardFlags(users)
     /\ inflight' = [inflight EXCEPT ![i] =
          StakeChecked(r, r.gs)]
     /\ UNCHANGED <<now, globalState, hist, requests, env>>

\* lines 406-426: insertOne of a new user document (a document already
\* stored for the address stays the one findOne and updateOne match), or
\* calculateAndSaveBXC of the document read at line 344, which $sets the
\* balance and lastBXCAccrualTime it computes from that document
StakeSaveUser(i) ==
  LET r == inflight[i]
      u1 == CalculateAndSaveBXC(r.user, globalState, now)
  IN /\ r.pc = "stake_save_user"
     /\ users' = [a \in DOMAIN users \cup {r.addr} |->
          IF a # r.addr THEN users[a]
          ELSE IF ~r.found
          THEN (IF a \in DOMAIN users THEN users[a] ELSE NewUser(a, r.t))
          ELSE IF AccrualCommitted(r.user, globalState, now)
          THEN [users[a] EXCEPT !.BXC_Balance = u1.BXC_Balance,
                                !.lastBXCAccrualTime = now]
          ELSE [users[a] EXCEPT !.lastBXCAccrualTime = now]]
     /\ inflight' = [inflight EXCEPT ![i].pc = "stake_update_user"]
     /\ UNCHANGED <<now, globalState, hist, requests, env>>

\* lines 431-441: $inc, $set and $push on the stored user document
StakeUpdateUser(i) ==
  LET r == inflight[i]
  IN /\ r.pc = "stake_update_user"
     /\ users' = [users EXCEPT ![r.addr] = StakeUpdate(@, r.gs, r.hash, r.t)]
     /\ inflight' = [inflight EXCEPT ![i].pc = "stake_inc_slots"]
     /\ UNCHANGED <<now, globalState, hist, requests, env>>

\* lines 443-447: $inc totalSlotsUsed; without a referrerRef the answer
\* follows
StakeIncSlots(i) ==
  /\ inflight[i].pc = "stake_inc_slots"
  /\ globalState' = [globalState EXCEPT !.totalSlotsUsed = @ + 1]
  /\ inflight' = [inflight EXCEPT ![i].pc = "done", ![i].result = "accepted"]
  /\ UNCHANGED <<now, users, hist, requests, env>>

\* Two stake requests in flight; the requests that set the scene (the slot
\* cap, an earlier stake, the passing of time) are served before they arrive
NextStakeRace ==
  \/ Quiet /\ Tick
  \/ Quiet /\ Stake("a1", "h1", NoRef)
  \/ Quiet /\ \E c \in Callers : AdminSetMaxSlots(c, 1)
  \/ \E i \in Racers, a \in Addresses, h \in Hashes : StakeFindUser(i, a, h)
  \/ \E i \in Racers : StakeFindGlobalState(i)
  \/ \E i \in Racers : StakeResetGlobalState(i)
  \/ \E i \in Racers : StakeRefetchGlobalState(i)
  \/ \E i \in Racers : StakeSweepUsers(i)
  \/ \E i \in Racers : StakeSaveUser(i)
  \/ \E i \in Racers : StakeUpdateUser(i)
  \/ \E i \in Racers : StakeIncSlots(i)

SpecStakeRace == Init /\ [][NextStakeRace]_vars

\* ------------------------------------------- /api/status, step by step
\* line 254: the request arrives and reads the user document
StatusFindUser(i, addr) ==
  /\ NextToArrive(i)
  /\ inflight' = [inflight EXCEPT ![i] =
       [@ EXCEPT !.pc = "status_save_user", !.addr = addr, !.t = now,
                 !.found = addr \in DOMAIN users,
                 !.user = IF addr \in DOMAIN users THEN users[addr] ELSE @,
                 !.seen = requests]]
  /\ UNCHANGED <<now, globalState, users, hist, requests, env>>

\* lines 255-275: insertOne of a new user document (a document already
\* stored for the address stays the one findOne and updateOne match), or
\* calculateAndSaveBXC of the document read at line 254, which $sets the
\* balance and lastBXCAccrualTime it computes from that document
StatusSaveUser(i) ==
  LET r == inflight[i]
      u1 == CalculateAndSaveBXC(r.user, globalState, now)
  IN /\ r.pc = "status_save_user"
     /\ users' = [a \in DOMAIN users \cup {r.addr} |->
          IF a # r.addr THEN users[a]
          ELSE IF ~r.found
          THEN (IF a \in DOMAIN users THEN users[a] ELSE NewUser(a, r.t))
          ELSE IF AccrualCommitted(r.user, globalState, now)
          THEN [users[a] EXCEPT !.BXC_Balance = u1.BXC_Balance,
                                !.lastBXCAccrualTime = now]
          ELSE [users[a] EXCEPT !.lastBXCAccrualTime = now]]
     /\ inflight' = [inflight EXCEPT ![i].pc = "done", ![i].result = "accepted"]
     /\ UNCHANGED <<now, globalState, hist, requests, env>>

\* One /api/status request of a1 in flight while whole requests that credit
\* the primary balance (stakes with and without a referrer, the referral-copy
\* bonus, the funding by the admin) are served and the clock runs on
NextFlushRace ==
  \/ Tick
  \/ \E a \in Addresses, r \in ReferrerRefs : Stake(a, "h1", r)
  \/ ReferralCopied("a1")
  \/ \E c \in Callers : AdminFundUser(c, "a1", "BXC")
  \/ StatusFindUser(1, "a1")
  \/ StatusSaveUser(1)

SpecFlushRace == Init /\ [][NextFlushRace]_vars

\* ------------------- /api/withdraw and /api/withdrawAIN, step by step
\* line 778: the request arrives and reads the user document; for an unknown
\* address calculateAndSaveBXC(null) throws and nothing is written
WithdrawFindUser(i, addr, amount) ==
  /\ NextToArrive(i)
  /\ inflight' = [inflight EXCEPT ![i] =
       [@ EXCEPT !.pc = IF addr \in DOMAIN users THEN "withdraw_save_user"
                        ELSE "done",
                 !.result = IF addr \in DOMAIN users THEN "none" ELSE "rejected",
                 !.token = "BXC", !.addr = addr, !.amount = amount, !.t = now,
                 !.found = addr \in DOMAIN users,
                 !.user = IF addr \in DOMAIN users THEN users[addr] ELSE @,
                 !.seen = requests]]
  /\ UNCHANGED <<now, globalState, users, hist, requests, env>>

\* line 779: calculateAndSaveBXC of the document read at line 778, which
\* $sets the balance and lastBXCAccrualTime it computes from that document
\* and returns it
WithdrawSaveUser(i) ==
  LET r == inflight[i]
      u1 == CalculateAndSaveBXC(r.user, globalState, now)
  IN /\ r.pc = "withdraw_save_user"
     /\ users' = [users EXCEPT ![r.addr] =
          IF AccrualCommitted(r.user, globalState, now)
          THEN [@ EXCEPT !.BXC_Balance = u1.BXC_Balance,
                         !.lastBXCAccrualTime = now]
          ELSE [@ EXCEPT !.lastBXCAccrualTime = now]]
     /\ inflight' = [inflight EXCEPT ![i].pc = "withdraw_find_global",
                                     ![i].user = u1,
                                     ![i].left = OrZero(u1.BXC_Balance)]
     /\ UNCHANGED <<now, globalState, hist, requests, env>>

\* line 780: it reads globalState; lines 782-790 decide on the balance of the
\* document it holds
WithdrawFindGlobalState(i) ==
  LET r == inflight[i]
  IN /\ r.pc = "withdraw_find_global"
     /\ inflight' = [inflight EXCEPT ![i] =
          IF WithdrawRejection(r.user.BXC_Balance, globalState) # "ok"
          THEN [@ EXCEPT !.pc = "done", !.gs = globalState, !.result = "rejected"]
          ELSE [@ EXCEPT !.pc = "withdraw_debit", !.gs = globalState]]
     /\ UNCHANGED <<now, globalState, users, hist, requests, env>>

\* lines 792-797: $inc of the stored balance by -withdrawAmount, computed
\* from the balance of the document it holds
WithdrawDebit(i) ==
  LET r == inflight[i]
  IN /\ r.pc = "withdraw_debit"
     /\ users' = [users EXCEPT ![r.addr].BXC_Balance =
                    Inc(@, Negated(WithdrawAmount(r.amount, r.user.BXC_Balance)))]
     /\ inflight' = [inflight EXCEPT ![i].pc = "done", ![i].result = "accepted"]
     /\ UNCHANGED <<now, globalState, hist, requests, env>>

\* line 831 of /api/withdrawAIN: the request arrives and reads the user
\* document
WithdrawAINFindUser(i, addr, amount) ==
  /\ NextToArrive(i)
  /\ inflight' = [inflight EXCEPT ![i] =
       [@ EXCEPT !.pc = "withdraw_ain_find_global",
                 !.token = "AIN", !.addr = addr, !.amount = amount, !.t = now,
                 !.found = addr \in DOMAIN users,
                 !.user = IF addr \in DOMAIN users THEN users[addr] ELSE @,
                 !.left = IF addr \in DOMAIN users
                          THEN OrZero(users[addr].AIN_Balance) ELSE 0,
                 !.seen = requests]]
  /\ UNCHANGED <<now, globalState, users, hist, requests, env>>

\* line 832: it reads globalState; lines 834-842 decide on the balance of the
\* document it holds
WithdrawAINFindGlobalState(i) ==
  LET r == inflight[i]
  IN /\ r.pc = "withdraw_ain_find_global"
     /\ inflight' = [inflight EXCEPT ![i] =
          IF ~r.found \/ WithdrawRejection(r.user.AIN_Balance, globalState) # "ok"
          THEN [@ EXCEPT !.pc = "done", !.gs = globalState, !.result = "rejected"]
          ELSE [@ EXCEPT !.pc = "withdraw_ain_debit", !.gs = globalState]]
     /\ UNCHANGED <<now, globalState, users, hist, requests, env>>

\* lines 844-849: $inc of the stored balance by -withdrawAmount
WithdrawAINDebit(i) ==
  LET r == inflight[i]
  IN /\ r.pc = "withdraw_ain_debit"
     /\ users' = [users EXCEPT ![r.addr].AIN_Balance =
                    Inc(@, Negated(WithdrawAmount(r.amount, r.user.AIN_Balance)))]
     /\ inflight' = [inflight EXCEPT ![i].pc = "done", ![i].result = "accepted"]
     /\ UNCHANGED <<now, globalState, hist, requests, env>>

\* Two withdrawal requests of a1 in flight; the requests that set the scene
\* (the stake of a1, its funding with AIN, the passing of time) are served
\* before they arrive
NextWithdrawRace ==
  \/ Quiet /\ Tick
  \/ Quiet /\ Stake("a1", "h1", NoRef)
  \/ Quiet /\ \E c \in Callers : AdminFundUser(c, "a1", "AIN")
  \/ \E i \in Racers, m \in {Undef, BxcUnits(50)} : WithdrawFindUser(i, "a1", m)
  \/ \E i \in Racers : WithdrawSaveUser(i)
  \/ \E i \in Racers : WithdrawFindGlobalState(i)
  \/ \E i \in Racers : WithdrawDebit(i)
  \/ \E i \in Racers, m \in {Undef, AinUnits(1)} : WithdrawAINFindUser(i, "a1", m)
  \/ \E i \in Racers : WithdrawAINFindGlobalState(i)
  \/ \E i \in Racers : WithdrawAINDebit(i)

SpecWithdrawRace == Init /\ [][NextWithdrawRace]_vars

\* ------------------------------------------------------- the admin gate
\* connectToMongo on an empty database, with ADMIN_WALLET_ADDRESS set or unset
InitAnyAdmin ==
  /\ now = 0
  /\ globalState = DefaultGlobalState(0)
  /\ users = [a \in {} |-> NoHistory]
  /\ hist = [of |-> [a \in Addresses |-> NoHistory], pause |-> <<>>,
             fullRestart |-> FALSE, resetBy |-> "none", swept |-> {},
             duration |-> Null, heldBack |-> FALSE]
  /\ requests = 0
  /\ inflight = [i \in Racers |-> IdleRequest]
  /\ \E a \in AdminAddressSettings : env = [ADMIN_WALLET_ADDRESS |-> a]

\* a request to one of the admin handlers with walletAddress c
AdminRequest(c) ==
  \/ AdminToggleEventPause(c)
  \/ AdminToggleWithdrawalsPause(c)
  \/ \E d \in DurationInputs : AdminSetEventDuration(c, d)
  \/ \E m \in StakeAmountInputs : AdminSetStakeAmount(c, m)
  \/ AdminSetMaxSlots(c, 1)
  \/ AdminSetAinRewardPool(c, 0)
  \/ AdminSetStakingWallet(c)
  \/ AdminFundUser(c, "a2", "AIN")
  \/ AdminUsersLeaderboard(c)
  \/ AccessDenied(c)

\* the admin handlers called by the admin, by others and without a caller,
\* beside the stake of one user
NextGate ==
  \/ Tick
  \/ Stake("a1", "h1", NoRef)
  \/ \E c \in GateCallers : AdminRequest(c)

SpecGate == InitAnyAdmin /\ [][NextGate]_vars

\* The handlers that decide the withdrawal and balance claims: stakes, the
\* three withdrawals, the reward draw and its collection, funding and the
\* pause of withdrawals
NextWithdraw ==
  \/ Tick
  \/ \E a \in Addresses : Stake(a, "h1", NoRef)
  \/ \E a \in Addresses : WithdrawStake(a)
  \/ \E a \in Addresses, m \in BxcAmounts : WithdrawBXC(a, m)
  \/ \E a \in Addresses, m \in AinAmounts : WithdrawAIN(a, m)
  \/ \E a \in Addresses : RevealReward(a, MilliUsd(REWARD_USD_REGULAR_MIN))
  \/ \E a \in Addresses : CollectReward(a)
  \/ \E c \in Callers : AdminToggleWithdrawalsPause(c)
  \/ \E c \in Callers, a \in Addresses : AdminFundUser(c, a, "AIN")

SpecWithdraw == Init /\ [][NextWithdraw]_vars

\* The handlers that decide what an accepted stake records: stakes of new
\* and of known users, with and without a referrer, the stake amount the
\* admin sets, and the cycle reset that lets a user stake again
NextStakeEffect ==
  \/ Tick
  \/ \E a \in Addresses, h \in Hashes, r \in ReferrerRefs : Stake(a, h, r)
  \/ \E c \in Callers, m \in StakeAmountInputs : AdminSetStakeAmount(c, m)
  \/ \E c \in Callers, d \in DurationInputs : AdminSetEventDuration(c, d)

SpecStakeEffect == Init /\ [][NextStakeEffect]_vars

\* One stake request served step by step while the clock runs on between
\* its store operations, after /api/status requests and whole stakes
NextStakeClock ==
  \/ Tick
  \/ Quiet /\ \E a \in Addresses : Status(a)
  \/ Quiet /\ \E a \in Addresses : Stake(a, "h1", NoRef)
  \/ \E a \in Addresses : StakeFindUser(1, a, "h2")
  \/ StakeFindGlobalState(1)
  \/ StakeResetGlobalState(1)
  \/ StakeRefetchGlobalState(1)
  \/ StakeSweepUsers(1)
  \/ StakeSaveUser(1)
  \/ StakeUpdateUser(1)
  \/ StakeIncSlots(1)

SpecStakeClock == Init /\ [][NextStakeClock]_vars

\* the start of the process on each of the collections it can find, at any
\* time after the stored document was written
InitStartup ==
  /\ now \in 0..MaxTime
  /\ \E stored \in StoredAtStartup :
        globalState = ensureGlobalStateInitialized(stored, now)[1]
  /\ users = [a \in {} |-> NoHistory]
  /\ hist = [of |-> [a \in Addresses |-> NoHistory], pause |-> <<>>,
             fullRestart |-> FALSE, resetBy |-> "none", swept |-> {},
             duration |-> Null, heldBack |-> FALSE]
  /\ requests = 0
  /\ inflight = [i \in Racers |-> IdleRequest]
  /\ env = [ADMIN_WALLET_ADDRESS |-> AdminWallet]

\* restarts of the process between the admin requests that write the cycle
\* and the settings, and the funding that creates user documents
NextStartup ==
  \/ Tick
  \/ Restart
  \/ \E c \in Callers : AdminToggleEventPause(c)
  \/ \E c \in Callers, d \in DurationInputs : AdminSetEventDuration(c, d)
  \/ \E c \in Callers : AdminSetAinRewardPool(c, 0)
  \/ \E c \in Callers : AdminFundUser(c, "a1", "BXC")

SpecStartup == InitStartup /\ [][NextStartup]_vars

\* A reveal request in flight together with a second reveal or with a stake
\* that resets the cycle; the stakes and the passing of time that set the
\* scene are served before they arrive
NextRevealResetRace ==
  \/ Quiet /\ Tick
  \/ Quiet /\ \E a \in Addresses : Stake(a, "h1", NoRef)
  \/ \E i \in Racers, a \in Addresses :
        RevealFindUser(i, a, MilliUsd(REWARD_USD_REGULAR_MIN))
  \/ \E i \in Racers : RevealFindGlobalState(i)
  \/ \E i \in Racers : RevealIncPool(i)
  \/ \E i \in Racers : RevealSetUser(i)
  \/ \E a \in Addresses : StakeFindUser(2, a, "h2")
  \/ StakeFindGlobalState(2)
  \/ StakeResetGlobalState(2)
  \/ StakeRefetchGlobalState(2)
  \/ StakeSweepUsers(2)
  \/ StakeSaveUser(2)
  \/ StakeUpdateUser(2)
  \/ StakeIncSlots(2)

SpecRevealResetRace == Init /\ [][NextRevealResetRace]_vars

\* =================================================================== claims

\* C1: in every reachable state the AIN rewarded in the current cycle
\* (totalAinRewarded) is at most the reward-pool cap (maxAinRewardPool), also
\* after the admin has set the cap to 0 or below the amount already rewarded.
C1_PoolCapRespected ==
  globalState.totalAinRewarded <= globalState.maxAinRewardPool

\* C2: in every reachable state totalSlotsUsed is at most maxStakeSlots, also
\* after the admin has lowered maxStakeSlots below the current usage.
C2_SlotsWithinCap ==
  globalState.totalSlotsUsed <= globalState.maxStakeSlots

\* C3: once a stake of an address with hash H was accepted, a stake request
\* of that address with hash H is rejected in every later state (whatever the
\* cycle, whatever WithdrawStake did in between), and a stake request of that
\* address with any hash is rejected while the cycle of the accepted stake is
\* still the current one (the request does not start a new cycle).
C3_ReplayRejected ==
  \A a \in Addresses :
    /\ \A h \in hist.of[a].hashes :
         StakeRejection(users, globalState, a, h, now) # "ok"
    /\ (hist.of[a].stakedInCycle /\ StakeGlobalState(globalState, now) = globalState)
         => \A h \in Hashes : StakeRejection(users, globalState, a, h, now) # "ok"

C10_NoAccrualForPause ==
  \A a \in DOMAIN users :
    \A c \in CreditsOf(a, users[a], globalState, now) :
      hist.pause = <<>>
      \/ ~(Max(c.from, hist.pause[1]) < Min(c.to, hist.pause[2]))

\* C5: a CollectReward is rejected in every state in which the user has not
\* revealed in the current cycle or the reveal of the cycle produced 0; a
\* rejected request writes nothing, so the secondary balance and the
\* collection time stay as they are.
C5_CollectNeedsReward ==
  \A a \in Addresses :
    (hist.of[a].drawn = Null \/ hist.of[a].drawn = 0)
      => CollectRejection(users, globalState, a, now) # "ok"

\* a user whose reveal of the cycle produced 0 asks for the collection after
\* the end of the event and is told that there is nothing to collect
C5_Witness ==
  \E a \in DOMAIN users :
    /\ hist.of[a].drawn = 0
    /\ CollectRejection(users, globalState, a, now) = "nothing_to_collect"

\* C6 (as stated): after a reveal of a non-zero reward, the first
\* CollectReward of the cycle succeeds and every CollectReward after an
\* accepted one is rejected while the cycle is current.
C6_FirstCollectSucceeds ==
  \A a \in Addresses :
    (hist.of[a].drawn # Null /\ hist.of[a].drawn > 0)
      => IF hist.of[a].collected
         THEN CollectRejection(users, globalState, a, now) # "ok"
         ELSE CollectRejection(users, globalState, a, now) = "ok"

\* C6 (amended): after a reveal of a non-zero reward a CollectReward made
\* while the event is not paused succeeds when none was accepted in the cycle
\* yet; an accepted CollectReward increments the secondary balance by the
\* revealed amount at the fixed rate of 0.137 USD per AIN and stamps the
\* collection time; after an accepted one every CollectReward of the cycle is
\* rejected.
C6_CollectOnce ==
  /\ [](\A a \in Addresses :
          (hist.of[a].drawn # Null /\ hist.of[a].drawn > 0)
            => /\ hist.of[a].collected
                    => CollectRejection(users, globalState, a, now) # "ok"
               /\ (~hist.of[a].collected /\ ~globalState.isPaused)
                    => CollectRejection(users, globalState, a, now) = "ok")
  /\ [][\A a \in Addresses :
          CollectReward(a)
            => /\ hist.of[a].drawn # Null /\ hist.of[a].drawn > 0
               /\ ~hist.of[a].collected
               /\ LET credit == (1370 * hist.of[a].drawn) \div 137
                  IN /\ 137 * credit = 1370 * hist.of[a].drawn
                     /\ users'[a].AIN_Balance = Inc(users[a].AIN_Balance, credit)
               /\ users'[a].collectedEventRewardTime = now]_vars

\* a user has collected the non-zero reward of the cycle: the secondary
\* balance holds it and a further CollectReward is rejected
C6_Witness ==
  \E a \in DOMAIN users :
    /\ hist.of[a].collected /\ hist.of[a].drawn > 0
    /\ 137 * users[a].AIN_Balance = 1370 * hist.of[a].drawn
    /\ users[a].collectedEventRewardTime # Null
    /\ CollectRejection(users, globalState, a, now) = "already_collected"

\* C7 (as stated): in every state in which the user has revealed in the
\* current cycle a RevealReward returns the stored reward and draws nothing.
C7_RepeatReturnsStored ==
  \A a \in Addresses :
    hist.of[a].drawn # Null
      => /\ RevealRejection(users, globalState, a, now) = "ok"
         /\ AlreadyRevealed(users[a], globalState)
         /\ 137 * RevealedAin(users[a]) = 1370 * hist.of[a].drawn

\* C7 (amended): a RevealReward by a user who has revealed in the current
\* cycle draws nothing: lastRevealedUSDAmount, claimedEventRewardTime and
\* totalAinRewarded are unchanged; while the event is not paused it returns
\* the stored reward (while it is paused the request is rejected).
C7_RepeatedRevealKeepsReward ==
  /\ [](\A a \in Addresses :
          (hist.of[a].drawn # Null /\ ~globalState.isPaused)
            => /\ RevealRejection(users, globalState, a, now) = "ok"
               /\ AlreadyRevealed(users[a], globalState)
               /\ 137 * RevealedAin(users[a]) = 1370 * hist.of[a].drawn)
  /\ [][\A a \in Addresses :
          (hist.of[a].drawn # Null /\ \E d \in RewardDraws : RevealReward(a, d))
            => /\ hist'.of[a].drawn = hist.of[a].drawn
               /\ users'[a].lastRevealedUSDAmount = users[a].lastRevealedUSDAmount
               /\ users'[a].claimedEventRewardTime = users[a].claimedEventRewardTime
               /\ globalState'.totalAinRewarded = globalState.totalAinRewarded]_vars

\* a user with a non-zero reward has asked for the reveal again and was
\* answered with the stored reward
C7_Witness ==
  \E a \in DOMAIN users :
    /\ hist.of[a].shown /\ hist.of[a].drawn # Null /\ hist.of[a].drawn > 0
    /\ users[a].lastRevealedUSDAmount = hist.of[a].drawn
    /\ globalState.totalAinRewarded = UsdToAin(hist.of[a].drawn)

\* C8: RevealReward draws a reward for a user only if the user has completed
\* a stake, the event is not paused and now >= eventEndTime, however the user
\* record was created.
C8_DrawOnlyAfterStake ==
  [][\A a \in Addresses :
       (hist.of[a].drawn = Null /\ hist'.of[a].drawn # Null)
         => /\ hist.of[a].hashes # {}
            /\ ~globalState.isPaused
            /\ now >= globalState.eventEndTime]_vars

\* C9 (as stated): while the event is not paused and the current cycle is
\* full and not expired, a stake request of a user who has not staked in the
\* cycle, with a hash not yet used by that user, is rejected as "slots filled"
\* and does not start a new cycle.
C9_FullCycleRejects ==
  \A a \in Addresses, h \in Hashes :
    (/\ ~globalState.isPaused
     /\ globalState.totalSlotsUsed >= CurrentMaxStakeSlots(globalState)
     /\ now <= globalState.eventEndTime
     /\ ~hist.of[a].stakedInCycle
     /\ h \notin hist.of[a].hashes)
      => /\ StakeRejection(users, globalState, a, h, now) = "slots_filled"
         /\ StakeGlobalState(globalState, now) = globalState

\* C9 (amended): no stake request is rejected as "slots filled"; while the
\* event is not paused and the current cycle is full or expired, a Stake
\* starts a new cycle at now, and when the user has no stake transaction
\* stamped at or after now and has not used the hash, the stake succeeds and
\* totalSlotsUsed equals 1.
C9_FullCycleRestarts ==
  /\ [](\A a \in Addresses, h \in Hashes :
          StakeRejection(users, globalState, a, h, now) # "slots_filled")
  /\ [][\A a \in Addresses, h \in Hashes, r \in ReferrerRefs :
          (/\ ~globalState.isPaused
           /\ \/ globalState.totalSlotsUsed >= CurrentMaxStakeSlots(globalState)
              \/ now > globalState.eventEndTime
           /\ Stake(a, h, r))
            => /\ globalState'.eventStartTime = now
               /\ globalState'.lastResetTime = now
               /\ (a \in DOMAIN users
                     => \A i \in DOMAIN users[a].stakeTransactions :
                          /\ users[a].stakeTransactions[i].timestamp < now
                          /\ users[a].stakeTransactions[i].hash # h)
                    => /\ globalState'.totalSlotsUsed = 1
                       /\ HashRecorded(users'[a], h)
                       /\ users'[a].lastBXCAccrualTime = now]_vars

\* a stake on a full cycle that had not expired started a new cycle and took
\* its first slot, while the stake of the cycle before is still on record
C9_Witness ==
  /\ hist.fullRestart
  /\ globalState.totalSlotsUsed = 1
  /\ globalState.eventStartTime = now
  /\ \E a, b \in DOMAIN users :
       /\ a # b
       /\ hist.of[a].stakedInCycle
       /\ ~hist.of[b].stakedInCycle /\ users[b].stakeTransactions # <<>>

\* C11: a toggle-event-pause that pauses at t1 records pauseStartTime = t1
\* and leaves eventEndTime unchanged; nothing changes either while the event
\* stays paused; the toggle that resumes at t2 sets eventEndTime to its
\* previous value plus exactly t2 - t1 and clears pauseStartTime, so the
\* remaining duration at the resume is the remaining duration at the pause.
C11_PauseShiftsEnd ==
  [][/\ (\E c \in Callers : AdminToggleEventPause(c))
          => IF ~globalState.isPaused
             THEN /\ globalState'.isPaused
                  /\ globalState'.pauseStartTime = now
                  /\ globalState'.eventEndTime = globalState.eventEndTime
             ELSE /\ ~globalState'.isPaused
                  /\ globalState'.pauseStartTime = Null
                  /\ globalState'.eventEndTime =
                       globalState.eventEndTime + (now - globalState.pauseStartTime)
                  /\ globalState'.eventEndTime - now =
                       globalState.eventEndTime - globalState.pauseStartTime
     /\ (globalState.isPaused /\ globalState'.isPaused)
          => /\ globalState.pauseStartTime # Null
             /\ globalState'.pauseStartTime = globalState.pauseStartTime
             /\ globalState'.eventEndTime = globalState.eventEndTime]_vars

\* the first cycle was paused for a positive time and resumed: its end moved
\* by the length of the pause
C11_Witness ==
  /\ hist.pause # <<>>
  /\ hist.pause[2] > hist.pause[1]
  /\ ~globalState.isPaused /\ globalState.pauseStartTime = Null
  /\ globalState.eventStartTime = 0
  /\ globalState.eventEndTime = DefaultDurationTicks + (hist.pause[2] - hist.pause[1])

\* C12: every amount an accrual computation adds to a primary balance is
\* BXC_ACCRUAL_PER_SECOND times the length of an interval [f, t] that lies
\* inside [eventStartTime, eventEndTime] of the current cycle and starts no
\* earlier than the user's lastBXCAccrualTime: nothing is credited for time
\* after eventEndTime or before eventStartTime.
C12_AccrualInsideWindow ==
  \A a \in DOMAIN users :
    LET after == CalculateAndSaveBXC(users[a], globalState, now)
        added == after.BXC_Balance - OrZero(users[a].BXC_Balance)
    IN after.BXC_Balance # users[a].BXC_Balance
         => \E f \in 0..now, t \in 0..now :
              /\ globalState.eventStartTime <= f /\ f <= t
              /\ t <= globalState.eventEndTime
              /\ users[a].lastBXCAccrualTime # Null
              /\ users[a].lastBXCAccrualTime <= f
              /\ added = BXC_ACCRUAL_PER_SECOND * (t - f)

\* a user whose last accrual is older than the current cycle is about to be
\* credited for the time since the start of the cycle only
C12_Witness ==
  \E a \in DOMAIN users :
    /\ users[a].lastBXCAccrualTime # Null
    /\ users[a].lastBXCAccrualTime < globalState.eventStartTime
    /\ globalState.eventStartTime < now
    /\ CalculateAndSaveBXC(users[a], globalState, now).BXC_Balance =
         users[a].BXC_Balance
         + BXC_ACCRUAL_PER_SECOND * (now - globalState.eventStartTime)

\* C13: for a staked user whose accrual was last computed at t0 with
\* eventStartTime <= t0 < eventEndTime, while the event is not paused, an
\* accrual computation at now > eventEndTime adds exactly
\* BXC_ACCRUAL_PER_SECOND * (eventEndTime - t0) to the primary balance.
C13_AccrualUpToEnd ==
  \A a \in DOMAIN users :
    (/\ IsPositive(users[a].slotsStaked)
     /\ ~globalState.isPaused
     /\ users[a].lastBXCAccrualTime # Null
     /\ globalState.eventStartTime <= users[a].lastBXCAccrualTime
     /\ users[a].lastBXCAccrualTime < globalState.eventEndTime
     /\ now > globalState.eventEndTime)
      => CalculateAndSaveBXC(users[a], globalState, now).BXC_Balance =
           OrZero(users[a].BXC_Balance)
           + BXC_ACCRUAL_PER_SECOND
               * (globalState.eventEndTime - users[a].lastBXCAccrualTime)

\* the step is a cycle reset: a stake request on an expired or full cycle of
\* an event that is not paused, the startup initialization of an expired
\* cycle, or set-event-duration
StakeResetStep ==
  /\ ~globalState.isPaused
  /\ \/ now > globalState.eventEndTime
     \/ globalState.totalSlotsUsed >= CurrentMaxStakeSlots(globalState)
  /\ \E a \in Addresses, h \in Hashes, r \in ReferrerRefs : Stake(a, h, r)

ResetStep ==
  \/ StakeResetStep
  \/ Startup
  \/ \E c \in Callers, d \in DurationInputs : AdminSetEventDuration(c, d)

\* C14: a stake request that arrives while the event is not paused with
\* now > eventEndTime or totalSlotsUsed >= maxStakeSlots resets the cycle
\* before the stake is evaluated: totalSlotsUsed = 0 (1 once the stake is
\* accepted), totalAinRewarded = 0, eventStartTime = now, isPaused = false,
\* pauseStartTime = null, every user has claimedEventRewardTime and
\* collectedEventRewardTime cleared and lastRevealedUSDAmount = 0, and every
\* user's lastReferralCopyBonusGiven is left as it was.
C14_StakeResetsCycle ==
  [][StakeResetStep
       => /\ StakeGlobalState(globalState, now).totalSlotsUsed = 0
          /\ globalState'.totalSlotsUsed =
               Cardinality({a \in DOMAIN users' :
                  a \notin DOMAIN users
                  \/ Len(users'[a].stakeTransactions) > Len(users[a].stakeTransactions)})
          /\ globalState'.totalSlotsUsed <= 1
          /\ globalState'.totalAinRewarded = 0
          /\ globalState'.eventStartTime = now
          /\ ~globalState'.isPaused
          /\ globalState'.pauseStartTime = Null
          /\ \A a \in DOMAIN users' :
               /\ users'[a].claimedEventRewardTime = Null
               /\ users'[a].collectedEventRewardTime = Null
               /\ users'[a].lastRevealedUSDAmount = 0
          /\ \A a \in DOMAIN users :
               users'[a].lastReferralCopyBonusGiven =
                 users[a].lastReferralCopyBonusGiven]_vars

\* a stake has reset an expired cycle: the reveal of a user of the ended cycle
\* is cleared, the referral-copy stamp of that user is still there
C14_Witness ==
  /\ hist.resetBy = "stake"
  /\ globalState.eventStartTime = now /\ globalState.totalSlotsUsed = 1
  /\ globalState.totalAinRewarded = 0
  /\ \E b \in hist.swept :
       /\ users[b].claimedEventRewardTime = Null
       /\ users[b].lastRevealedUSDAmount = 0
       /\ users[b].lastReferralCopyBonusGiven # Null
       /\ users[b].lastReferralCopyBonusGiven < globalState.eventStartTime

\* C15: every cycle reset leaves withdrawalsPaused, maxStakeSlots,
\* maxAinRewardPool, initialStakeAmountUSD and stakingRecipientAddress exactly
\* as they were before the reset.
C15_ResetKeepsSettings ==
  [][ResetStep
       => /\ globalState'.withdrawalsPaused = globalState.withdrawalsPaused
          /\ globalState'.maxStakeSlots = globalState.maxStakeSlots
          /\ globalState'.maxAinRewardPool = globalState.maxAinRewardPool
          /\ globalState'.initialStakeAmountUSD = globalState.initialStakeAmountUSD
          /\ globalState'.stakingRecipientAddress =
               globalState.stakingRecipientAddress]_vars

\* C16: once the admin has set the event duration to D, the cycle created by
\* that call and every cycle created by a later reset has
\* eventEndTime = eventStartTime + D when it is created.
C16_ResetsUseSetDuration ==
  [][(ResetStep /\ hist'.duration # Null)
       => globalState'.eventEndTime = globalState'.eventStartTime + hist'.duration]_vars

\* C17: when two reveal requests of different users have interleaved their
\* store operations and both are answered, with no other request served
\* since the first of them arrived, the AIN rewarded in the cycle is at most
\* a positive reward-pool cap.
C17_ConcurrentRevealsRespectPool ==
  \A i, j \in Racers :
     ( /\ i # j
       /\ inflight[i].pc = "done" /\ inflight[j].pc = "done"
       /\ inflight[i].result = "accepted" /\ inflight[j].result = "accepted"
       /\ inflight[i].addr # inflight[j].addr
       /\ inflight[i].seen = requests /\ inflight[j].seen = requests
       /\ globalState.maxAinRewardPool > 0 )
     => globalState.totalAinRewarded <= globalState.maxAinRewardPool

\* C18: when two stake requests of different users arrive while exactly one
\* slot is free and interleave their store operations, with no other request
\* served since, at most one of them is accepted and totalSlotsUsed is at
\* most maxStakeSlots.
C18_LastSlotTakenOnce ==
  \A i, j \in Racers :
     ( /\ i # j
       /\ inflight[i].pc # "idle" /\ inflight[j].pc # "idle"
       /\ inflight[i].addr # inflight[j].addr
       /\ inflight[i].left = 1 /\ inflight[j].left = 1
       /\ inflight[i].seen = requests /\ inflight[j].seen = requests )
     => /\ ~(inflight[i].result = "accepted" /\ inflight[j].result = "accepted")
        /\ globalState.totalSlotsUsed <= CurrentMaxStakeSlots(globalState)

\* C19: when two stake requests of the same wallet address interleave their
\* store operations, at most one of them is accepted: no stakeTransactions
\* holds the same hash twice or two entries of the current cycle.
C19_OneStakePerWalletAndCycle ==
  /\ \A i, j \in Racers :
        (i # j /\ inflight[i].addr = inflight[j].addr)
        => ~(inflight[i].result = "accepted" /\ inflight[j].result = "accepted")
  /\ \A a \in DOMAIN users :
        \A m, n \in DOMAIN users[a].stakeTransactions :
           m # n =>
             /\ users[a].stakeTransactions[m].hash # users[a].stakeTransactions[n].hash
             /\ ~ /\ users[a].stakeTransactions[m].timestamp >= globalState.eventStartTime
                  /\ users[a].stakeTransactions[n].timestamp >= globalState.eventStartTime

\* C20: a WithdrawStake request is accepted only for a user with an active
\* stake (slotsStaked >= 1), while neither the event nor withdrawals are
\* paused and now is not after eventStartTime; accepted, it zeroes the stake,
\* both balances and the reward fields, empties stakeTransactions and takes
\* exactly 1 from totalSlotsUsed; rejected, it changes no stake field, no
\* balance and not totalSlotsUsed.
C20_WithdrawStakeContract ==
  [][\A a \in Addresses :
       WithdrawStake(a) =>
         LET u == users[a]
             v == users'[a]
             accepted ==
               WithdrawStakeRejection(CalculateAndSaveBXC(u, globalState, now),
                                      globalState, now) = "ok"
         IN IF accepted
            THEN /\ IsPositive(u.slotsStaked)
                 /\ ~globalState.isPaused /\ ~globalState.withdrawalsPaused
                 /\ now <= globalState.eventStartTime
                 /\ v.slotsStaked = 0 /\ v.stakedUSDValue = 0
                 /\ v.BXC_Balance = 0 /\ v.AIN_Balance = 0
                 /\ v.stakeTransactions = <<>>
                 /\ v.claimedEventRewardTime = Null
                 /\ v.collectedEventRewardTime = Null
                 /\ v.lastRevealedUSDAmount = 0
                 /\ globalState'.totalSlotsUsed = globalState.totalSlotsUsed - 1
            ELSE /\ v.slotsStaked = u.slotsStaked
                 /\ v.stakedUSDValue = u.stakedUSDValue
                 /\ v.stakeTransactions = u.stakeTransactions
                 /\ v.BXC_Balance = u.BXC_Balance
                 /\ v.AIN_Balance = u.AIN_Balance
                 /\ globalState'.totalSlotsUsed = globalState.totalSlotsUsed]_vars

\* C21: totalSlotsUsed is never negative, also after a WithdrawStake of a
\* user whose stake was counted in a cycle that has been reset since.
C21_SlotsNeverNegative == globalState.totalSlotsUsed >= 0

\* C22: a request to an admin handler whose caller address is missing, or
\* differs (ignoring case) from the configured admin address, or arrives while
\* no admin address is configured, leaves globalState and every user document
\* unchanged.
C22_NonAdminChangesNothing ==
  [][\A c \in GateCallers :
       ( /\ \/ c = ""
            \/ env.ADMIN_WALLET_ADDRESS = ""
            \/ ToLowerCase(c) # ToLowerCase(env.ADMIN_WALLET_ADDRESS)
         /\ AdminRequest(c) )
       => UNCHANGED <<globalState, users>>]_vars

\* no admin address is configured and only admin requests have been served
C22_Witness ==
  /\ env.ADMIN_WALLET_ADDRESS = ""
  /\ requests = MaxRequests
  /\ DOMAIN users = {}
  /\ globalState = DefaultGlobalState(0)

\* C23: a Stake, WithdrawStake, WithdrawBalance or ReferralCopyBonus request
\* that is rejected for a business rule leaves globalState and every user
\* document as they were; a rejected Stake neither resets the cycle nor
\* sweeps the reward flags.  (RevealReward, CollectReward and the withdrawal
\* of the secondary balance reject before their first write.)
C23_RejectionChangesNothing ==
  [][/\ \A a \in Addresses, h \in Hashes, r \in ReferrerRefs :
          (Stake(a, h, r) /\ StakeRejection(users, globalState, a, h, now) # "ok")
          => UNCHANGED <<globalState, users>>
     /\ \A a \in Addresses :
          ( /\ WithdrawStake(a)
            /\ WithdrawStakeRejection(CalculateAndSaveBXC(users[a], globalState, now),
                                      globalState, now) # "ok" )
          => UNCHANGED <<globalState, users>>
     /\ \A a \in Addresses, m \in BxcAmounts :
          ( /\ WithdrawBXC(a, m)
            /\ WithdrawRejection(CalculateAndSaveBXC(users[a], globalState, now).BXC_Balance,
                                 globalState) # "ok" )
          => UNCHANGED <<globalState, users>>
     /\ \A a \in Addresses :
          ( /\ ReferralCopied(a)
            /\ ReferralCopyRejection(CalculateAndSaveBXC(users[a], globalState, now),
                                     globalState) # "ok" )
          => UNCHANGED <<globalState, users>>]_vars

\* C24: while withdrawalsPaused is true a withdrawal of the primary balance,
\* of the secondary balance or of the stake is rejected and debits no
\* balance; and whether a Stake, RevealReward or CollectReward is rejected
\* does not depend on withdrawalsPaused.
C24_WithdrawalsPauseGatesWithdrawals ==
  /\ [](LET flipped == [globalState EXCEPT !.withdrawalsPaused = ~@]
        IN /\ \A a \in DOMAIN users :
                globalState.withdrawalsPaused
                => WithdrawRejection(users[a].AIN_Balance, globalState) # "ok"
           /\ \A a \in Addresses, h \in Hashes :
                /\ StakeRejection(users, flipped, a, h, now)
                     = StakeRejection(users, globalState, a, h, now)
                /\ RevealRejection(users, flipped, a, now)
                     = RevealRejection(users, globalState, a, now)
                /\ CollectRejection(users, flipped, a, now)
                     = CollectRejection(users, globalState, a, now))
  /\ [][globalState.withdrawalsPaused =>
          \A a \in Addresses :
             /\ ((\E m \in BxcAmounts : WithdrawBXC(a, m)) \/ WithdrawStake(a))
                => /\ \/ users'[a].BXC_Balance = users[a].BXC_Balance
                      \/ /\ IsNumber(users'[a].BXC_Balance)
                         /\ users'[a].BXC_Balance >= OrZero(users[a].BXC_Balance)
                   /\ users'[a].AIN_Balance = users[a].AIN_Balance
                   /\ users'[a].slotsStaked = users[a].slotsStaked
                   /\ users'[a].stakeTransactions = users[a].stakeTransactions
                   /\ globalState' = globalState
             /\ ~(\E m \in AinAmounts : WithdrawAIN(a, m))]_vars

\* a withdrawal has been rejected because withdrawals are paused, and they
\* still are
C24_Witness ==
  /\ hist.heldBack
  /\ globalState.withdrawalsPaused
  /\ \E a \in DOMAIN users : IsPositive(users[a].BXC_Balance)

\* C25: an accepted withdrawal from a balance B > 0 (for the primary balance:
\* B after the accrual flush of the request) debits the requested amount m
\* when 0 < m <= B and all of B when m is absent, not positive or more than
\* B; the balance it leaves is not negative.
C25_WithdrawDebitsResolvedAmount ==
  [][\A a \in Addresses :
       /\ \A m \in BxcAmounts :
            LET B == CalculateAndSaveBXC(users[a], globalState, now).BXC_Balance
            IN ( /\ WithdrawBXC(a, m)
                 /\ IsPositive(B)
                 /\ ~globalState.isPaused /\ ~globalState.withdrawalsPaused )
               => /\ users'[a].BXC_Balance =
                       (IF m # Undef /\ 0 < m /\ m <= B THEN B - m ELSE 0)
                  /\ users'[a].BXC_Balance >= 0
       /\ \A m \in AinAmounts :
            LET B == users[a].AIN_Balance
            IN (WithdrawAIN(a, m) /\ IsPositive(B))
               => /\ users'[a].AIN_Balance =
                       (IF m # Undef /\ 0 < m /\ m <= B THEN B - m ELSE 0)
                  /\ users'[a].AIN_Balance >= 0]_vars

\* a staked user has withdrawn a part of the initial bonus
C25_Witness ==
  \E a \in DOMAIN users :
     /\ IsPositive(users[a].slotsStaked)
     /\ users[a].BXC_Balance = INITIAL_BXC - BxcUnits(50)

\* C26: the referral-copy bonus is credited only to a user that has staked
\* (slotsStaked >= 1), only while the event is not paused, and only when the
\* user has not been credited it since the last cycle reset; no cycle reset
\* changes lastReferralCopyBonusGiven.
C26_CopyBonusOncePerCycle ==
  [][/\ \A a \in Addresses :
          ( /\ ReferralCopied(a)
            /\ ReferralCopyRejection(CalculateAndSaveBXC(users[a], globalState, now),
                                     globalState) = "ok" )
          => /\ IsPositive(users[a].slotsStaked)
             /\ ~globalState.isPaused
             /\ \/ users[a].lastReferralCopyBonusGiven = Null
                \/ users[a].lastReferralCopyBonusGiven < globalState.lastResetTime
     /\ ResetStep
          => \A a \in DOMAIN users :
                users'[a].lastReferralCopyBonusGiven
                  = users[a].lastReferralCopyBonusGiven]_vars

\* C27: an accepted Stake adds 1 to the staker's slotsStaked, credits
\* INITIAL_BXC on top of the balance the accrual flush of the request leaves,
\* sets stakedUSDValue to the initialStakeAmountUSD of globalState, appends
\* one {hash, timestamp, amountUSD} entry to stakeTransactions and adds 1 to
\* the totalSlotsUsed of the cycle the stake is evaluated in; a later change
\* of initialStakeAmountUSD by the admin changes no user document.
C27_StakeRecordsCurrentAmount ==
  [][/\ \A a \in Addresses, h \in Hashes, r \in ReferrerRefs :
          ( /\ Stake(a, h, r)
            /\ StakeRejection(users, globalState, a, h, now) = "ok" )
          => LET known == a \in DOMAIN users
                 cycle == StakeGlobalState(globalState, now)
                 flushed == IF known
                            THEN CalculateAndSaveBXC(users[a], cycle, now).BXC_Balance
                            ELSE 0
                 slots == IF known THEN OrZero(users[a].slotsStaked) ELSE 0
                 txs == IF known THEN users[a].stakeTransactions ELSE <<>>
             IN /\ users'[a].slotsStaked = slots + 1
                /\ users'[a].BXC_Balance = flushed + INITIAL_BXC
                /\ users'[a].stakedUSDValue = globalState.initialStakeAmountUSD
                /\ users'[a].stakeTransactions =
                     Append(txs, [hash |-> h, timestamp |-> now,
                                  amountUSD |-> globalState.initialStakeAmountUSD])
                /\ globalState'.totalSlotsUsed = cycle.totalSlotsUsed + 1
     /\ (\E c \in Callers, m \in StakeAmountInputs : AdminSetStakeAmount(c, m))
          => users' = users]_vars

\* a user's recorded stake amount differs from the amount the admin has set
\* since, and another user has staked the new amount
C27_Witness ==
  /\ \E a \in DOMAIN users :
        /\ users[a].stakedUSDValue = DefaultInitialStakeAmountUSD
        /\ globalState.initialStakeAmountUSD # DefaultInitialStakeAmountUSD
  /\ \E a \in DOMAIN users :
        users[a].stakedUSDValue = globalState.initialStakeAmountUSD

\* C28: no request other than a withdrawal of the primary balance or of the
\* stake by the same user lowers a user's numeric primary balance or makes it
\* not a number.
C28_PrimaryBalanceOnlyWithdrawn ==
  [][\A a \in DOMAIN users :
       ( /\ IsNumber(users[a].BXC_Balance)
         /\ ~(\E m \in BxcAmounts : WithdrawBXC(a, m))
         /\ ~WithdrawStake(a) )
       => /\ a \in DOMAIN users'
          /\ IsNumber(users'[a].BXC_Balance)
          /\ users'[a].BXC_Balance >= users[a].BXC_Balance]_vars

\* a user's primary balance has grown by accrual beyond the bonuses
C28_Witness ==
  \E a \in DOMAIN users :
     /\ IsPositive(users[a].slotsStaked)
     /\ users[a].BXC_Balance > INITIAL_BXC
     /\ users[a].referralCount = 0
     /\ users[a].lastReferralCopyBonusGiven = Null
     /\ hist.of[a].fundings = 0

\* C29: a user's secondary balance is raised only by an accepted
\* CollectReward of that user.
C29_OnlyCollectRaisesAin ==
  [][\A a \in DOMAIN users' :
       (IF a \in DOMAIN users
        THEN /\ IsNumber(users'[a].AIN_Balance)
             /\ users'[a].AIN_Balance > OrZero(users[a].AIN_Balance)
        ELSE IsPositive(users'[a].AIN_Balance))
       => CollectReward(a)]_vars

\* C29 (amended): a user's secondary balance is raised only by an accepted
\* CollectReward of that user or by the admin funding that user with AIN.
C29_OnlyCollectOrFundingRaisesAin ==
  [][\A a \in DOMAIN users' :
       (IF a \in DOMAIN users
        THEN /\ IsNumber(users'[a].AIN_Balance)
             /\ users'[a].AIN_Balance > OrZero(users[a].AIN_Balance)
        ELSE IsPositive(users'[a].AIN_Balance))
       => \/ CollectReward(a)
          \/ \E c \in Callers : AdminFundUser(c, a, "AIN")]_vars

\* a user has collected a reward into the secondary balance, another was
\* funded by the admin
C29_Witness ==
  \E a, b \in DOMAIN users :
     /\ a # b
     /\ IsPositive(users[a].slotsStaked)
     /\ hist.of[a].collected /\ IsPositive(users[a].AIN_Balance)
     /\ hist.of[b].fundings > 0 /\ IsPositive(users[b].AIN_Balance)

\* C30: no write moves a user's lastBXCAccrualTime backwards, also when the
\* clock advances between the store operations of one request.
C30_AccrualTimeMonotonic ==
  [][\A a \in DOMAIN users :
       users[a].lastBXCAccrualTime # Null
       => /\ a \in DOMAIN users'
          /\ users'[a].lastBXCAccrualTime # Null
          /\ users'[a].lastBXCAccrualTime >= users[a].lastBXCAccrualTime]_vars

\* C31: in every reachable state every user's slotsStaked is 0 or 1, also for
\* a user who stakes in several successive cycles.
C31_SlotsStakedZeroOrOne ==
  \A a \in DOMAIN users : users[a].slotsStaked \in {0, 1}

\* C32: ensureGlobalStateInitialized creates the globalState document with
\* totalSlotsUsed = 0 and a cycle starting at now when none is stored; it
\* changes nothing when the stored document has all its fields and an
\* unexpired cycle; invoked a second time at the same clock value it leaves
\* what the first invocation left.
C32_EnsureCreatesOnceAndIsIdempotent ==
  LET created == ensureGlobalStateInitialized(<<>>, now)
      unchanged == ensureGlobalStateInitialized(<<globalState>>, now)
      validAndUnexpired ==
        /\ DOMAIN StartupDefaults \subseteq DOMAIN globalState
        /\ ~StartupExpired(globalState, now)
  IN /\ Len(created) = 1
     /\ created[1].totalSlotsUsed = 0
     /\ created[1].eventStartTime = now
     /\ created[1].eventEndTime > now
     /\ validAndUnexpired
          => /\ unchanged = <<globalState>>
             /\ ensuredUsers(<<globalState>>, users, now) = users
     /\ \A stored \in StoredAtStartup \cup {<<globalState>>} :
          LET once == ensureGlobalStateInitialized(stored, now)
              usersOnce == ensuredUsers(stored, users, now)
          IN /\ ensureGlobalStateInitialized(once, now) = once
             /\ ensuredUsers(once, usersOnce, now) = usersOnce

\* C33: a RevealReward that draws for a user a payout above what is left of
\* the pool (maxAinRewardPool - totalAinRewarded) is accepted and committed as
\* exactly what is left: totalAinRewarded becomes maxAinRewardPool, the stored
\* reward is the clamped amount, and the amount answered is 0 (no winner)
\* when nothing is left.
C33_DrawClampedToRemainingPool ==
  [][\A a \in Addresses, d \in RewardDraws :
       LET remaining == globalState.maxAinRewardPool - globalState.totalAinRewarded
           payout == UsdToAin(DrawnRewardUSD(globalState, d))
       IN ( /\ RevealReward(a, d)
            /\ ~AlreadyRevealed(users[a], globalState)
            /\ payout > remaining )
          => /\ globalState'.totalAinRewarded = globalState.maxAinRewardPool
             /\ users'[a].lastRevealedUSDAmount = AinToUsd(remaining)
             /\ users'[a].claimedEventRewardTime = now
             /\ ClampedAin(globalState, DrawnRewardUSD(globalState, d)) = remaining]_vars

\* C34: whenever no request is between two of its store operations, also
\* after two reveals of one user or a reveal and a cycle-resetting stake have
\* interleaved, totalAinRewarded is the sum of the stored rewards of the users
\* that have revealed in the current cycle.
C34_PoolIsSumOfRevealedRewards ==
  LET revealed(a) ==
        IF a \in DOMAIN users /\ AlreadyRevealed(users[a], globalState)
        THEN UsdToAin(OrZero(users[a].lastRevealedUSDAmount)) ELSE 0
  IN (\A i \in Racers : inflight[i].pc \in {"idle", "done"})
       => globalState.totalAinRewarded = revealed("a1") + revealed("a2")

\* C35: RevealReward draws a reward for a user only if the user has a stake
\* transaction stamped within the current cycle: a user whose only stakes
\* belong to earlier cycles gets no draw.
C35_DrawNeedsStakeInCycle ==
  [][\A a \in Addresses :
       (hist.of[a].drawn = Null /\ hist'.of[a].drawn # Null)
         => /\ a \in DOMAIN users
            /\ HasStakedInCurrentCycle(users[a], globalState)]_vars

\* C36: once the cycle in which a user staked has reached its eventEndTime, a
\* request of another user (a Stake after eventEndTime included) does not
\* take the user's pending entitlement away: while the event is not paused a
\* RevealReward of the user is accepted as long as the user has not revealed,
\* and a CollectReward is accepted as long as a revealed reward > 0 has not
\* been collected.
C36_EntitlementSurvivesOthers ==
  [][\A a \in Addresses :
       LET byAnother ==
             \E b \in Addresses \ {a} :
                \/ \E h \in Hashes, r \in ReferrerRefs : Stake(b, h, r)
                \/ WithdrawStake(b)
                \/ \E d \in RewardDraws : RevealReward(b, d)
                \/ CollectReward(b)
           ended == hist.of[a].stakedInCycle /\ now >= globalState.eventEndTime
       IN ( /\ byAnother /\ ended /\ ~globalState'.isPaused )
          => /\ hist.of[a].drawn = Null
                  => RevealRejection(users', globalState', a, now') = "ok"
             /\ (/\ hist.of[a].drawn # Null /\ hist.of[a].drawn > 0
                 /\ ~hist.of[a].collected)
                  => CollectRejection(users', globalState', a, now') = "ok"]_vars

\* C37: a credit that another request has applied to a user's primary balance
\* (stake bonus, referral credit, referral-copy bonus, funding) since an
\* accrual flush read the user's document is not lost when the flush writes:
\* the write leaves the stored balance plus the amount the flush accrued.
C37_FlushKeepsConcurrentCredit ==
  [][\A i \in Racers :
       StatusSaveUser(i) =>
         LET r == inflight[i]
             accrued == IF AccrualCommitted(r.user, globalState, now)
                        THEN AccruedBXC(r.user, globalState, now) ELSE 0
         IN r.found =>
              users'[r.addr].BXC_Balance
                = Inc(users[r.addr].BXC_Balance, accrued)]_vars

\* C38: when two withdrawals of one user in one currency interleave their
\* store operations, the balance does not become negative, and once both are
\* answered, with no other request served since they arrived, the two debits
\* together are at most the balance the requests found.
C38_ConcurrentWithdrawalsWithinBalance ==
  /\ \A a \in DOMAIN users :
        /\ IsNumber(users[a].BXC_Balance) => users[a].BXC_Balance >= 0
        /\ IsNumber(users[a].AIN_Balance) => users[a].AIN_Balance >= 0
  /\ LET p == inflight[1]
         q == inflight[2]
         debit(r) == WithdrawAmount(r.amount, IF r.token = "BXC"
                                              THEN r.user.BXC_Balance
                                              ELSE r.user.AIN_Balance)
     IN ( /\ p.pc = "done" /\ q.pc = "done"
          /\ p.result = "accepted" /\ q.result = "accepted"
          /\ p.addr = q.addr /\ p.token = q.token
          /\ p.seen = requests /\ q.seen = requests )
        => debit(p) + debit(q) <= Max(p.left, q.left)

\* C39: in every state reached by pause toggles, cycle resets (by a stake, by
\* set-event-duration, by the startup initialization) and the other requests,
\* isPaused is true exactly when pauseStartTime is not null; so every toggle
\* that resumes finds the time of the pause and moves eventEndTime by the
\* time elapsed since.
C39_PausedIffPauseStartRecorded ==
  /\ [](globalState.isPaused <=> globalState.pauseStartTime # Null)
  /\ [][(globalState.isPaused /\ \E c \in Callers : AdminToggleEventPause(c))
          => /\ globalState.pauseStartTime # Null
             /\ globalState.pauseStartTime <= now
             /\ globalState'.eventEndTime =
                  globalState.eventEndTime + (now - globalState.pauseStartTime)
             /\ ~globalState'.isPaused
             /\ globalState'.pauseStartTime = Null]_vars

\* after a cycle reset the event was paused for a positive time and resumed:
\* the end of the cycle moved by the length of the pause
C39_Witness ==
  /\ hist.resetBy # "none"
  /\ hist.pause # <<>>
  /\ hist.pause[2] > hist.pause[1]
  /\ hist.pause[1] >= globalState.eventStartTime
  /\ ~globalState.isPaused /\ globalState.pauseStartTime = Null
  /\ globalState.eventEndTime - globalState.eventStartTime
       > hist.pause[2] - hist.pause[1]

====
